---- MODULE Spec2Model ----
(***************************************************************************)
(* Catalogue service of the agent registry: Publish (CreateServer) and     *)
(* Update (UpdateServer) transactions running concurrently against the     *)
(* transactional store.  The service code is internal/registry/service     *)
(* (registryServiceImpl); the three kinds (server, agent, skill) share the *)
(* same publish logic, the server kind is modelled.                        *)
(*                                                                         *)
(* A transaction's writes become visible to other transactions when it     *)
(* commits; a transaction never reads uncommitted rows of another one.     *)
(* All reads and writes a transaction makes on rows of its own name after  *)
(* it holds the advisory lock are one step: no other transaction can write *)
(* rows of that name meanwhile.  The duplicate-remote-URL check reads rows *)
(* of other names and is a step of its own.                                *)
(*                                                                         *)
(* The store's unique constraints (primary key, one latest per name) are   *)
(* not part of CreateServerRow: the invariants below are shown to follow   *)
(* from the service's own checks.                                          *)
(*                                                                         *)
(* Further sections model the runtime reconciler (ReconcileAll on the      *)
(* local and the kubernetes backend), the deployments API, the import of   *)
(* servers from an external registry, the authorization of agent           *)
(* publishing and of the MCP deployment tools, the resolver and the        *)
(* Kubernetes translator, the start of the registry process, and the       *)
(* install, uninstall and refresh commands of the CLI.  Each has its own   *)
(* specification over the shared variables.                                *)
(***************************************************************************)
EXTENDS Integers, FiniteSets, Sequences, TLC

\* ---------------------------------------------------------------- bounds
\* Readings of the wall clock are 0..MaxTime.
MaxTime == 1

\* const maxServerVersionsPerServer = 10000, scaled so that the ceiling is
\* reached; the comparison against it is the code's.
maxServerVersionsPerServer == 2

\* Reads served after the start are numbered 1..MaxReads.
MaxReads == 2

\* createResolvedMCPServerConfigs is called with at most MaxRequests requests.
MaxRequests == 2

\* Names of artifacts have 1..MaxNameLen characters.
MaxNameLen == 2

\* FetchAllServers is followed for at most MaxFetches page requests.
MaxFetches == 4

\* The CLI runs at most MaxCommands commands.
MaxCommands == 3

\* ---------------------------------------------------------------- domains
Procs == {"t1", "t2"}

Names == {"a/x", "a/y"}

URLs == {"https://r.example/mcp"}

None == "none"

\* A semantic version: major.minor.patch, pre = 0 for a release and k > 0
\* for the pre-release identifier rc.k, build = build metadata tag.
V100  == [major |-> 1, minor |-> 0, patch |-> 0, pre |-> 0, build |-> 0]
V100b == [major |-> 1, minor |-> 0, patch |-> 0, pre |-> 0, build |-> 1]
V110  == [major |-> 1, minor |-> 1, patch |-> 0, pre |-> 0, build |-> 0]

VersionSet == {V100, V100b, V110}

StatusActive == "active"
StatusDeprecated == "deprecated"
StatusDeleted == "deleted"

Statuses == {StatusActive, StatusDeprecated, StatusDeleted}

\* Results of a call.
OK == "ok"
ErrValidation == "validation_failed"
ErrRemoteConflict == "remote_url_conflict"
ErrMaxServersReached == "max_servers_reached"
ErrInvalidVersion == "invalid_version"
ErrNotFound == "not_found"
ErrConflict == "status_conflict"

\* ---------------------------------------------------------------- state
VARIABLES
    rows,         \* committed rows of the servers table
    lock,         \* advisory lock: name -> holding transaction, or None
    now,          \* the wall clock
    pc,           \* per transaction: position in its handler
    req,          \* per transaction: the request it serves
    publishTime,  \* per transaction: publishTime := time.Now()
    result,       \* per transaction: what the call returned
    cluster,      \* Kubernetes namespace: the resources applied to it
    localrt,      \* local runtime directory: its files and the containers run from it
    rc,           \* per reconcile caller: position in ReconcileAll and its locals
    lastRun,      \* per backend: the DesiredState and outcome of the last finished reconcile
    started,      \* number of ReconcileAll calls so far
    deployments,  \* rows of the deployments table
    dc,           \* per deployment request: position in its handler and its locals
    dcalls,       \* number of deployment requests so far
    imp,          \* the registry client and the import loop of connect / refresh
    au,           \* the request being served by the publish endpoint or the MCP endpoint
    app,          \* the registry process: its position in App and the startup deadline
    tr,           \* the last call of the translators: its input and what it produced
    cli           \* the CLI: its local database, its runtime directory and the running command

catalogueVars == <<rows, lock, now, pc, req, publishTime, result>>

runtimeVars == <<cluster, localrt, rc, lastRun, started>>

deployVars == <<deployments, dc, dcalls>>

vars == <<catalogueVars, runtimeVars, deployVars, imp, au, app, tr, cli>>

NoReq == [op |-> None, name |-> None, version |-> V100, remotes |-> {},
          structOK |-> TRUE, registryOK |-> TRUE, newStatus |-> None]

\* ---------------------------------------------------------------- resolver
Sign(x) == IF x > 0 THEN 1 ELSE IF x < 0 THEN -1 ELSE 0

\* semver precedence: major, minor, patch; a release is greater than a
\* pre-release; pre-release identifiers by number; build metadata ignored.
CompareSemver(v1, v2) ==
    IF v1.major # v2.major THEN Sign(v1.major - v2.major)
    ELSE IF v1.minor # v2.minor THEN Sign(v1.minor - v2.minor)
    ELSE IF v1.patch # v2.patch THEN Sign(v1.patch - v2.patch)
    ELSE IF v1.pre = 0 /\ v2.pre # 0 THEN 1
    ELSE IF v1.pre # 0 /\ v2.pre = 0 THEN -1
    ELSE Sign(v1.pre - v2.pre)

\* Compare(vNew, vOld, publishedNew, publishedOld): ties break by
\* publishedAt, later wins.
CompareVersions(v1, v2, t1, t2) ==
    IF CompareSemver(v1, v2) # 0 THEN CompareSemver(v1, v2)
    ELSE Sign(t1 - t2)

\* ---------------------------------------------------------------- store
RowsOf(rs, n) == {r \in rs : r.name = n}

ListServersByRemoteURL(rs, u) == {r \in rs : u \in r.remotes}

CountServerVersions(rs, n) == Cardinality(RowsOf(rs, n))

CheckVersionExists(rs, n, v) == \E r \in rs : r.name = n /\ r.version = v

\* The absent row (ErrNotFound, or a nil currentLatest).
NoRow == [name |-> None]

GetServerByNameAndVersion(rs, n, v) ==
    IF CheckVersionExists(rs, n, v)
    THEN CHOOSE r \in rs : r.name = n /\ r.version = v
    ELSE NoRow

GetCurrentLatestVersion(rs, n) ==
    IF \E r \in RowsOf(rs, n) : r.isLatest
    THEN CHOOSE r \in RowsOf(rs, n) : r.isLatest
    ELSE NoRow

UnmarkAsLatest(rs, n) ==
    {IF r.name = n THEN [r EXCEPT !.isLatest = FALSE] ELSE r : r \in rs}

CreateServerRow(rs, row) == rs \cup {row}

UpdateServerRow(rs, n, v, rq) ==
    {IF r.name = n /\ r.version = v
     THEN [r EXCEPT !.remotes = rq.remotes]
     ELSE r : r \in rs}

\* active -> deprecated, any -> deleted; a status set to itself is no change.
StatusTransitionAllowed(old, new) ==
    \/ new = old
    \/ new = StatusDeleted
    \/ old = StatusActive /\ new = StatusDeprecated

\* The store applies a status only along an allowed transition.
SetServerStatus(rs, n, v, s) ==
    {IF r.name = n /\ r.version = v /\ StatusTransitionAllowed(r.status, s)
     THEN [r EXCEPT !.status = s]
     ELSE r : r \in rs}

\* SetServerStatus fails (Conflict) on a transition that is not allowed.
SetServerStatusFails(rs, n, v, s) ==
    \E r \in rs : r.name = n /\ r.version = v /\ ~StatusTransitionAllowed(r.status, s)

\* ---------------------------------------------------------------- validators
ValidateServerJSON(rq) == rq.structOK

ValidatePackages(rq) == rq.registryOK

\* cfg.EnableRegistryValidation (ENABLE_REGISTRY_VALIDATION): the registry is
\* run with registry validation of packages switched on.
EnableRegistryValidation == TRUE

ValidatePublishRequest(rq, enabled) ==
    ValidateServerJSON(rq) /\ (enabled => ValidatePackages(rq))

\* ---------------------------------------------------------------- service
validateNoDuplicateRemoteURLs(rs, name, remotes) ==
    \A u \in remotes : \A r \in ListServersByRemoteURL(rs, u) : r.name = name

VersionLimitReached_OffByOne(versionCount) == versionCount > maxServerVersionsPerServer

VersionLimitReached(versionCount) == versionCount >= maxServerVersionsPerServer

IsNewLatest_Always(currentLatest, version, t) == TRUE

IsNewLatest_OnEqual(currentLatest, version, t) ==
    IF currentLatest # NoRow
    THEN CompareVersions(version, currentLatest.version, t, currentLatest.publishedAt) >= 0
    ELSE TRUE

IsNewLatest(currentLatest, version, t) ==
    IF currentLatest # NoRow
    THEN CompareVersions(version, currentLatest.version, t, currentLatest.publishedAt) > 0
    ELSE TRUE

ShouldUnmark_Never(isNewLatest, currentLatest) == FALSE

ShouldUnmark(isNewLatest, currentLatest) == isNewLatest /\ currentLatest # NoRow

officialMeta(rq, t, isNewLatest) ==
    [name |-> rq.name, version |-> rq.version, remotes |-> rq.remotes,
     status |-> StatusActive, publishedAt |-> t,
     isLatest |-> isNewLatest]

skipRegistryValidation_Always(currentServer, newStatus) == TRUE

skipRegistryValidation_OnlyBeingDeleted(currentServer, newStatus) ==
    newStatus = StatusDeleted

skipRegistryValidation(currentServer, newStatus) ==
    currentServer.status = StatusDeleted \/ newStatus = StatusDeleted

validateUpdateRequest(rq, skip, enabled) ==
    IF ~ValidateServerJSON(rq) THEN FALSE
    ELSE IF skip \/ ~enabled THEN TRUE
    ELSE ValidatePackages(rq)

\* if versionExists { return nil, database.ErrInvalidVersion }
IsDuplicateVersion_Unchecked(versionExists) == FALSE

IsDuplicateVersion(versionExists) == versionExists

\* if newStatus != nil { SetServerStatus(...) }
StatusChangeRequested(newStatus) == newStatus # None

StatusErrReturned_Swallowed(err) == FALSE

\* updatedWithStatus, err := SetServerStatus(...); if err != nil { return nil, err }
StatusErrReturned(err) == err

NextStep_PublishWithoutLock(op, at) ==
    CASE at = "begin"   -> IF op = "publish" THEN "remotes" ELSE "lock"
      [] at = "lock"    -> "remotes"
      [] at = "remotes" -> "write"
      [] at = "write"   -> "done"

NextStep_UpdateWithoutLock(op, at) ==
    CASE at = "begin"   -> IF op = "update" THEN "remotes" ELSE "lock"
      [] at = "lock"    -> "remotes"
      [] at = "remotes" -> "write"
      [] at = "write"   -> "done"

\* The order of the steps of a handler: where a transaction goes after the
\* step `at` has succeeded.
NextStep(op, at) ==
    CASE at = "begin"   -> "lock"
      [] at = "lock"    -> "remotes"
      [] at = "remotes" -> "write"
      [] at = "write"   -> "done"

\* ---------------------------------------------------------------- transactions
Release(p) == [n \in Names |-> IF lock[n] = p THEN None ELSE lock[n]]

\* The transaction ends with an error: InTransactionT rolls back, which
\* releases the advisory lock; nothing was written.
Rollback(p, err) ==
    /\ pc' = [pc EXCEPT ![p] = "done"]
    /\ result' = [result EXCEPT ![p] = err]
    /\ lock' = Release(p)
    /\ rows' = rows

\* The transaction commits the rows rs and releases the advisory lock.
Commit(p, rs) ==
    /\ pc' = [pc EXCEPT ![p] = NextStep(req[p].op, "write")]
    /\ result' = [result EXCEPT ![p] = OK]
    /\ lock' = Release(p)
    /\ rows' = rs

Request(op, name, version, remotes, structOK, registryOK, newStatus) ==
    [op |-> op, name |-> name, version |-> version, remotes |-> remotes,
     structOK |-> structOK, registryOK |-> registryOK, newStatus |-> newStatus]

\* Publish requests of the publish-only runs: three versions of a/x (one
\* more than the ceiling), two of them equal in semver precedence; a/y
\* claims the remote URL of a/x; one request fails structural and one
\* registry validation.
PublishInputs ==
    { Request("publish", "a/x", V100,  URLs, TRUE, TRUE, None),
      Request("publish", "a/x", V100b, {},   TRUE, TRUE, None),
      Request("publish", "a/x", V110,  {},   TRUE, TRUE, None),
      Request("publish", "a/y", V100,  URLs, TRUE, TRUE, None),
      Request("publish", "a/x", V110,  {},   FALSE, TRUE, None),
      Request("publish", "a/x", V110,  {},   TRUE, FALSE, None) }

\* Publish requests of the runs with deployments.
DeployCatalogueInputs ==
    { Request("publish", "a/x", V100, {}, TRUE, TRUE, None),
      Request("publish", "a/x", V110, {}, TRUE, TRUE, None) }

\* Publish requests of the runs with updates.
CataloguePublishInputs ==
    { Request("publish", "a/x", V100, {},   TRUE, TRUE, None),
      Request("publish", "a/x", V110, {},   TRUE, TRUE, None),
      Request("publish", "a/y", V100, URLs, TRUE, TRUE, None) }

\* Update requests: edits of a/x 1.0.0 with every status and a package
\* identifier the registry accepts or not; one that claims the remote URL;
\* one that fails structural validation.
UpdateInputs ==
    { Request("update", "a/x", V100, {}, TRUE, pk, st) :
        pk \in BOOLEAN, st \in Statuses \cup {None} }
    \cup { Request("update", "a/x", V100, URLs, TRUE, TRUE, None),
           Request("update", "a/x", V100, {}, FALSE, TRUE, None) }

\* CreateServer up to the lock: ValidatePublishRequest, publishTime := time.Now().
CreateServer_Begin(p, inputs) ==
    /\ pc[p] = "idle"
    /\ \E rq \in inputs :
        /\ req' = [req EXCEPT ![p] = rq]
        /\ IF ~ValidatePublishRequest(rq, EnableRegistryValidation)
           THEN /\ Rollback(p, ErrValidation)
                /\ UNCHANGED publishTime
           ELSE /\ publishTime' = [publishTime EXCEPT ![p] = now]
                /\ pc' = [pc EXCEPT ![p] = NextStep("publish", "begin")]
                /\ UNCHANGED <<rows, lock, result>>
    /\ UNCHANGED now
    /\ UNCHANGED <<runtimeVars, deployVars, imp, au, app, tr, cli>>

\* UpdateServer up to the lock: read the current row, validateUpdateRequest.
UpdateServer_Begin(p) ==
    /\ pc[p] = "idle"
    /\ \E rq \in UpdateInputs :
        /\ req' = [req EXCEPT ![p] = rq]
        /\ LET currentServer == GetServerByNameAndVersion(rows, rq.name, rq.version)
           IN IF currentServer = NoRow
              THEN Rollback(p, ErrNotFound)
              ELSE IF ~validateUpdateRequest(rq, skipRegistryValidation(currentServer, rq.newStatus), EnableRegistryValidation)
              THEN Rollback(p, ErrValidation)
              ELSE /\ pc' = [pc EXCEPT ![p] = NextStep("update", "begin")]
                   /\ UNCHANGED <<rows, lock, result>>
    /\ UNCHANGED <<now, publishTime>>
    /\ UNCHANGED <<runtimeVars, deployVars, imp, au, app, tr, cli>>

\* s.db.AcquirePublishLock(ctx, tx, name): waits while another transaction
\* holds the lock of that name.
AcquirePublishLock(p) ==
    /\ pc[p] = "lock"
    /\ lock[req[p].name] = None
    /\ lock' = [lock EXCEPT ![req[p].name] = p]
    /\ pc' = [pc EXCEPT ![p] = NextStep(req[p].op, "lock")]
    /\ UNCHANGED <<rows, now, req, publishTime, result>>
    /\ UNCHANGED <<runtimeVars, deployVars, imp, au, app, tr, cli>>

\* The duplicate remote URL check of CreateServer and UpdateServer.
CheckRemotes(p) ==
    /\ pc[p] = "remotes"
    /\ IF validateNoDuplicateRemoteURLs(rows, req[p].name, req[p].remotes)
       THEN /\ pc' = [pc EXCEPT ![p] = NextStep(req[p].op, "remotes")]
            /\ UNCHANGED <<rows, lock, result>>
       ELSE Rollback(p, ErrRemoteConflict)
    /\ UNCHANGED <<now, req, publishTime>>
    /\ UNCHANGED <<runtimeVars, deployVars, imp, au, app, tr, cli>>

\* CreateServer from the version count to the insert and the commit.
CreateServer_Write(p) ==
    /\ pc[p] = "write"
    /\ req[p].op = "publish"
    /\ LET rq == req[p]
           currentLatest == GetCurrentLatestVersion(rows, rq.name)
           isNewLatest == IsNewLatest(currentLatest, rq.version, publishTime[p])
           unmarked == IF ShouldUnmark(isNewLatest, currentLatest)
                       THEN UnmarkAsLatest(rows, rq.name)
                       ELSE rows
       IN IF VersionLimitReached(CountServerVersions(rows, rq.name))
          THEN Rollback(p, ErrMaxServersReached)
          ELSE IF IsDuplicateVersion(CheckVersionExists(rows, rq.name, rq.version))
          THEN Rollback(p, ErrInvalidVersion)
          ELSE Commit(p, CreateServerRow(unmarked, officialMeta(rq, publishTime[p], isNewLatest)))
    /\ UNCHANGED <<now, req, publishTime>>
    /\ UNCHANGED <<runtimeVars, deployVars, imp, au, app, tr, cli>>

\* UpdateServer from db.UpdateServer to the status change and the commit.
UpdateServer_Write(p) ==
    /\ pc[p] = "write"
    /\ req[p].op = "update"
    /\ LET rq == req[p]
           cur == GetServerByNameAndVersion(rows, rq.name, rq.version)
           updated == UpdateServerRow(rows, rq.name, rq.version, rq)
       IN IF cur = NoRow
          THEN Rollback(p, ErrNotFound)
          ELSE IF ~StatusChangeRequested(rq.newStatus)
          THEN Commit(p, updated)
          ELSE IF StatusErrReturned(SetServerStatusFails(updated, rq.name, rq.version, rq.newStatus))
          THEN Rollback(p, ErrConflict)
          ELSE Commit(p, SetServerStatus(updated, rq.name, rq.version, rq.newStatus))
    /\ UNCHANGED <<now, req, publishTime>>
    /\ UNCHANGED <<runtimeVars, deployVars, imp, au, app, tr, cli>>

\* The call has returned; the worker serves the next request.
Return(p) ==
    /\ pc[p] = "done"
    /\ pc' = [pc EXCEPT ![p] = "idle"]
    /\ req' = [req EXCEPT ![p] = NoReq]
    /\ publishTime' = [publishTime EXCEPT ![p] = 0]
    /\ result' = [result EXCEPT ![p] = None]
    /\ UNCHANGED <<rows, lock, now>>
    /\ UNCHANGED <<runtimeVars, deployVars, imp, au, app, tr, cli>>

\* The wall clock advances.
Tick ==
    /\ now < MaxTime
    /\ now' = now + 1
    /\ UNCHANGED <<rows, lock, pc, req, publishTime, result>>
    /\ UNCHANGED <<runtimeVars, deployVars, imp, au, app, tr, cli>>

\* ---------------------------------------------------------------- runtime reconciler
\* ReconcileAll calls are numbered 1..MaxReconciles.
MaxReconciles == 3

Workers == {"w1", "w2"}

Backends == {"local", "kubernetes"}

ErrApply == "runtime_apply_failed"

\* One resolved artifact of a DesiredState: an agent (deps: it has resolved
\* MCP servers), a remote MCP server or a local MCP server, with the
\* configuration it is deployed with.
Artifact(kind, name, cfg, deps) ==
    [kind |-> kind, name |-> name, cfg |-> cfg, deps |-> deps]

\* Desired states: nothing; the MCP server s, in two configurations; s and
\* the agent a; these and the remote MCP server r.
DesiredStates ==
    { {},
      {Artifact("mcp", "s", "c1", FALSE)},
      {Artifact("mcp", "s", "c2", FALSE)},
      {Artifact("agent", "a", "c1", TRUE), Artifact("mcp", "s", "c1", FALSE)},
      {Artifact("agent", "a", "c1", TRUE), Artifact("mcp", "s", "c1", FALSE),
       Artifact("remote", "r", "c1", FALSE)} }

\* Desired states of the concurrent runs.
ConcurrentDesiredStates ==
    { {Artifact("mcp", "s", "c1", FALSE)},
      {Artifact("agent", "a", "c1", TRUE), Artifact("mcp", "s", "c1", FALSE)} }

RECURSIVE SetToSeq(_)
SetToSeq(S) ==
    IF S = {} THEN <<>>
    ELSE LET x == CHOOSE y \in S : TRUE IN <<x>> \o SetToSeq(S \ {x})

\* A Kubernetes object: kind, name and the content applied.
Resource(kind, name, spec) == [kind |-> kind, name |-> name, spec |-> spec]

\* KubernetesRuntimeConfig of a DesiredState (kagent translator): its
\* ConfigMaps (one per agent with resolved MCP servers), Agents,
\* RemoteMCPServers and MCPServers.
TranslateRuntimeConfig(ds, kind) ==
    LET of(k) == {y \in ds : y.kind = k}
        from == CASE kind = "ConfigMap" -> {y \in of("agent") : y.deps}
                  [] kind = "Agent" -> of("agent")
                  [] kind = "RemoteMCPServer" -> of("remote")
                  [] kind = "MCPServer" -> of("mcp")
    IN {Resource(kind, x.name, x.cfg) : x \in from}

KubernetesResources(ds) ==
    UNION {TranslateRuntimeConfig(ds, k) :
              k \in {"ConfigMap", "Agent", "RemoteMCPServer", "MCPServer"}}

\* ensureKubernetesRuntime: "if cfg == nil || (len(cfg.Agents) == 0 &&
\* len(cfg.RemoteMCPServers) == 0 && len(cfg.MCPServers) == 0) return nil".
KubernetesNothingToDo(ds) ==
    /\ TranslateRuntimeConfig(ds, "Agent") = {}
    /\ TranslateRuntimeConfig(ds, "RemoteMCPServer") = {}
    /\ TranslateRuntimeConfig(ds, "MCPServer") = {}

\* ensureKubernetesRuntime applies ConfigMaps, Agents, RemoteMCPServers and
\* MCPServers, in this order.
ApplyOrder(ds) ==
    SetToSeq(TranslateRuntimeConfig(ds, "ConfigMap"))
        \o SetToSeq(TranslateRuntimeConfig(ds, "Agent"))
        \o SetToSeq(TranslateRuntimeConfig(ds, "RemoteMCPServer"))
        \o SetToSeq(TranslateRuntimeConfig(ds, "MCPServer"))

SameObject(r, obj) == r.kind = obj.kind /\ r.name = obj.name

\* applyResource: c.Patch(obj, client.Apply, FieldOwner, ForceOwnership)
\* creates the object or sets it to obj.
applyResource(cl, obj) == {r \in cl : ~SameObject(r, obj)} \cup {obj}

applyResourceFails_CreateOnly(cl, obj, fault) ==
    fault \/ \E r \in cl : SameObject(r, obj)

\* applyResource returns an error exactly when the API call fails.
applyResourceFails(cl, obj, fault) == fault

ResourcesKept_RolledBack(cl, applied) == cl \ applied

\* ensureKubernetesRuntime on a failed apply: "return fmt.Errorf(...)", the
\* objects applied so far stay in the cluster.
ResourcesKept(cl, applied) == cl

\* A compose service, or an entry of the agent gateway configuration.
Service(name, spec) == [name |-> name, spec |-> spec]

\* LocalRuntimeConfig of a DesiredState: one service per MCP server that
\* runs locally and per agent, and the agent gateway; the gateway
\* configuration lists the MCP servers.
DockerCompose(ds) ==
    {Service("agent-gateway", "gw")}
        \cup {Service(x.name, x.cfg) : x \in {y \in ds : y.kind # "remote"}}

AgentGateway(ds) ==
    {Service(x.name, x.cfg) : x \in {y \in ds : y.kind # "agent"}}

\* A file of the runtime directory.
NoFile == [exists |-> FALSE, content |-> {}]

\* os.WriteFile truncates the file and writes content.
WriteFile(old, content) == [exists |-> TRUE, content |-> content]

\* "docker", "compose", "up", "-d", "--remove-orphans", "--force-recreate"
RemoveOrphans == TRUE

ForceRecreate == TRUE

\* docker compose up on the services of the compose file: containers of
\* services missing from the file are removed with --remove-orphans;
\* containers are created for new or changed services, and for every
\* service with --force-recreate.  n numbers the containers created.
ComposeUp(file, cs, n) ==
    LET upToDate(c) == \E sv \in file : sv.name = c.name /\ sv.spec = c.spec
        orphan(c) == ~\E sv \in file : sv.name = c.name
        create == IF ForceRecreate THEN file
                  ELSE {sv \in file : ~\E c \in cs : c.name = sv.name /\ c.spec = sv.spec}
    IN {[name |-> sv.name, spec |-> sv.spec, gen |-> n] : sv \in create}
         \cup (IF ForceRecreate THEN {} ELSE {c \in cs : upToDate(c)})
         \cup (IF RemoveOrphans THEN {} ELSE {c \in cs : orphan(c)})

\* RefreshMCPConfig writes the resolved MCP server configuration of each
\* agent of the request under the runtime directory.
RefreshMCPConfig(mcp, ds) == mcp \cup {x.name : x \in {y \in ds : y.kind = "agent"}}

IdleCaller ==
    [pc |-> "idle", backend |-> "local", desired |-> {}, todo |-> <<>>,
     applied |-> {}, result |-> None, faulted |-> FALSE, repeat |-> FALSE,
     retry |-> FALSE]

NoRun == [desired |-> {}, ok |-> FALSE, partial |-> FALSE]

\* ReconcileAll returns res: nil, or the error of the step that failed.
Finish(w, res) ==
    /\ rc' = [rc EXCEPT ![w].pc = "done", ![w].result = res, ![w].todo = <<>>,
                        ![w].faulted = (res # OK)]
    /\ lastRun' = [lastRun EXCEPT ![rc[w].backend] =
                      [desired |-> rc[w].desired, ok |-> res = OK,
                       partial |-> res # OK /\ rc[w].applied # {}]]

\* ReconcileAll up to ensureRuntime: the requests are translated into the
\* DesiredState ds, RefreshMCPConfig runs for its agents, the runtime
\* translator of the backend produces the runtime configuration.
ReconcileAll_Begin(w, inputs) ==
    /\ rc[w].pc = "idle"
    /\ started < MaxReconciles
    /\ started' = started + 1
    /\ \E b \in Backends, ds \in inputs, fault \in BOOLEAN :
        LET call == [IdleCaller EXCEPT
                        !.backend = b, !.desired = ds,
                        !.repeat = lastRun[b].ok /\ lastRun[b].desired = ds,
                        !.retry = lastRun[b].partial /\ lastRun[b].desired = ds]
        IN IF fault
           THEN /\ rc' = [rc EXCEPT ![w] = [call EXCEPT !.pc = "done", !.result = ErrApply,
                                                        !.faulted = TRUE]]
                /\ lastRun' = [lastRun EXCEPT ![b] = [desired |-> ds, ok |-> FALSE, partial |-> FALSE]]
                /\ UNCHANGED localrt
           ELSE /\ rc' = [rc EXCEPT ![w] = [call EXCEPT !.pc = "ensure"]]
                /\ localrt' = [localrt EXCEPT !.mcp = RefreshMCPConfig(localrt.mcp, ds)]
                /\ UNCHANGED lastRun
    /\ UNCHANGED cluster
    /\ UNCHANGED <<catalogueVars, deployVars, imp, au, app, tr, cli>>

\* ensureKubernetesRuntime up to the first apply.
ensureKubernetesRuntime_Enter(w) ==
    /\ rc[w].pc = "ensure"
    /\ rc[w].backend = "kubernetes"
    /\ IF KubernetesNothingToDo(rc[w].desired)
       THEN Finish(w, OK)
       ELSE \E fault \in BOOLEAN :
               IF fault
               THEN Finish(w, ErrApply)
               ELSE /\ rc' = [rc EXCEPT ![w].pc = "apply", ![w].todo = ApplyOrder(rc[w].desired)]
                    /\ UNCHANGED lastRun
    /\ UNCHANGED <<cluster, localrt, started>>
    /\ UNCHANGED <<catalogueVars, deployVars, imp, au, app, tr, cli>>

\* One applyResource call of ensureKubernetesRuntime; after the last one the
\* call returns nil.
ensureKubernetesRuntime_Apply(w) ==
    /\ rc[w].pc = "apply"
    /\ rc[w].todo # <<>>
    /\ LET obj == Head(rc[w].todo)
       IN \E fault \in BOOLEAN :
            IF applyResourceFails(cluster, obj, fault)
            THEN /\ cluster' = ResourcesKept(cluster, rc[w].applied)
                 /\ rc' = [rc EXCEPT ![w].pc = "done", ![w].result = ErrApply,
                                     ![w].todo = <<>>, ![w].faulted = fault]
                 /\ lastRun' = [lastRun EXCEPT ![rc[w].backend] =
                                   [desired |-> rc[w].desired, ok |-> FALSE,
                                    partial |-> rc[w].applied # {}]]
            ELSE /\ cluster' = applyResource(cluster, obj)
                 /\ IF Tail(rc[w].todo) = <<>>
                    THEN /\ rc' = [rc EXCEPT ![w].pc = "done", ![w].result = OK,
                                             ![w].todo = <<>>,
                                             ![w].applied = @ \cup {obj}]
                         /\ lastRun' = [lastRun EXCEPT ![rc[w].backend] =
                                           [desired |-> rc[w].desired, ok |-> TRUE,
                                            partial |-> FALSE]]
                    ELSE /\ rc' = [rc EXCEPT ![w].todo = Tail(@),
                                             ![w].applied = @ \cup {obj}]
                         /\ UNCHANGED lastRun
    /\ UNCHANGED <<localrt, started>>
    /\ UNCHANGED <<catalogueVars, deployVars, imp, au, app, tr, cli>>

\* ensureLocalRuntime step 1: os.MkdirAll(r.runtimeDir).
ensureLocalRuntime_MkdirAll(w) ==
    /\ rc[w].pc = "ensure"
    /\ rc[w].backend = "local"
    /\ \E fault \in BOOLEAN :
        IF fault
        THEN Finish(w, ErrApply)
        ELSE /\ rc' = [rc EXCEPT ![w].pc = "compose"]
             /\ UNCHANGED lastRun
    /\ UNCHANGED <<cluster, localrt, started>>
    /\ UNCHANGED <<catalogueVars, deployVars, imp, au, app, tr, cli>>

\* ensureLocalRuntime step 2: write docker-compose.yaml.
ensureLocalRuntime_WriteCompose(w) ==
    /\ rc[w].pc = "compose"
    /\ \E fault \in BOOLEAN :
        IF fault
        THEN /\ Finish(w, ErrApply)
             /\ UNCHANGED localrt
        ELSE /\ localrt' = [localrt EXCEPT !.compose = WriteFile(@, DockerCompose(rc[w].desired))]
             /\ rc' = [rc EXCEPT ![w].pc = "gateway", ![w].applied = @ \cup {Resource("File", "docker-compose.yaml", "-")}]
             /\ UNCHANGED lastRun
    /\ UNCHANGED <<cluster, started>>
    /\ UNCHANGED <<catalogueVars, deployVars, imp, au, app, tr, cli>>

\* ensureLocalRuntime step 3: write agent-gateway.yaml.
ensureLocalRuntime_WriteGateway(w) ==
    /\ rc[w].pc = "gateway"
    /\ \E fault \in BOOLEAN :
        IF fault
        THEN /\ Finish(w, ErrApply)
             /\ UNCHANGED localrt
        ELSE /\ localrt' = [localrt EXCEPT !.gateway = WriteFile(@, AgentGateway(rc[w].desired))]
             /\ rc' = [rc EXCEPT ![w].pc = "up", ![w].applied = @ \cup {Resource("File", "agent-gateway.yaml", "-")}]
             /\ UNCHANGED lastRun
    /\ UNCHANGED <<cluster, started>>
    /\ UNCHANGED <<catalogueVars, deployVars, imp, au, app, tr, cli>>

\* ensureLocalRuntime step 4: docker compose up in the runtime directory,
\* on the compose file that is there now.  A failing run leaves the
\* containers as they were.
ensureLocalRuntime_ComposeUp(w) ==
    /\ rc[w].pc = "up"
    /\ \E fault \in BOOLEAN :
        IF fault
        THEN /\ Finish(w, ErrApply)
             /\ UNCHANGED localrt
        ELSE /\ localrt' = [localrt EXCEPT
                               !.containers = ComposeUp(localrt.compose.content, @, localrt.ups + 1),
                               !.ups = @ + 1]
             /\ Finish(w, OK)
    /\ UNCHANGED <<cluster, started>>
    /\ UNCHANGED <<catalogueVars, deployVars, imp, au, app, tr, cli>>

\* The caller has its answer and may call again.
ReconcileAll_Return(w) ==
    /\ rc[w].pc = "done"
    /\ rc' = [rc EXCEPT ![w] = IdleCaller]
    /\ UNCHANGED <<cluster, localrt, lastRun, started>>
    /\ UNCHANGED <<catalogueVars, deployVars, imp, au, app, tr, cli>>

InitRuntime ==
    /\ cluster = {}
    /\ localrt = [mcp |-> {}, compose |-> NoFile, gateway |-> NoFile,
                  containers |-> {}, ups |-> 0]
    /\ rc = [w \in Workers |-> IdleCaller]
    /\ lastRun = [b \in Backends |-> NoRun]
    /\ started = 0


\* ---------------------------------------------------------------- deployments
\* Deployment requests are numbered 1..MaxDeployCalls.
MaxDeployCalls == 2

ErrBadRequest == "bad_request"

\* The agents of the catalogue (published and active throughout).
PublishedAgents == {[name |-> "a/x", version |-> V100, status |-> StatusActive]}

\* A row of the deployments table.
Deployment(kind, name, version, config, runtime) ==
    [kind |-> kind, name |-> name, version |-> version, config |-> config,
     runtime |-> runtime]

\* POST /v0/deployments bodies: a/x 1.0.0 and 1.1.0 as MCP server (resource
\* type given or left out), a/x 1.0.0 as agent, a resource type that does
\* not exist; two configurations.
DeployInputs ==
    { [op |-> "deploy", resourceType |-> "", name |-> "a/x", version |-> V100,
       config |-> "c1", runtime |-> "local"],
      [op |-> "deploy", resourceType |-> "mcp", name |-> "a/x", version |-> V100,
       config |-> "c2", runtime |-> "local"],
      [op |-> "deploy", resourceType |-> "mcp", name |-> "a/x", version |-> V110,
       config |-> "c1", runtime |-> "local"],
      [op |-> "deploy", resourceType |-> "agent", name |-> "a/x", version |-> V100,
       config |-> "c1", runtime |-> "kubernetes"],
      [op |-> "deploy", resourceType |-> "skill", name |-> "a/x", version |-> V100,
       config |-> "c1", runtime |-> "local"] }

\* "Default to MCP server if resource type not specified"
ResourceTypeOf(resourceType) == IF resourceType = "" THEN "mcp" ELSE resourceType

ValidResourceType(resourceType) == resourceType = "mcp" \/ resourceType = "agent"

\* Deploy confirms that the referenced version exists and is not deleted.
VersionDeployable(rs, kind, name, version) ==
    LET catalogue == IF kind = "agent" THEN PublishedAgents ELSE rs
    IN \E r \in catalogue :
          r.name = name /\ r.version = version /\ r.status # StatusDeleted

SameDeployment(d, e) == d.kind = e.kind /\ d.name = e.name /\ d.version = e.version

UpsertDeployment_Insert(ds, row) == ds \cup {row}

\* Deploy upserts the row of (kind, name, version).
UpsertDeployment(ds, row) == {d \in ds : ~SameDeployment(d, row)} \cup {row}

GetDeploymentByNameAndVersion(ds, name, version) ==
    {d \in ds : d.name = name /\ d.version = version}

\* UpdateConfig replaces the configuration of the deployment.
UpdateDeploymentConfigRows(ds, name, version, config) ==
    {IF d.name = name /\ d.version = version THEN [d EXCEPT !.config = config] ELSE d
        : d \in ds}

\* Remove deletes the row.
RemoveDeployment(ds, name, version) ==
    {d \in ds : ~(d.name = name /\ d.version = version)}

\* The DesiredState of a runtime target: the deployments recorded for it.
DesiredOf(ds, b) ==
    {Artifact(d.kind, d.name, d.config, FALSE) : d \in {e \in ds : e.runtime = b}}

RECURSIVE ApplyAll(_, _)
ApplyAll(cl, todo) ==
    IF todo = <<>> THEN cl ELSE ApplyAll(applyResource(cl, Head(todo)), Tail(todo))

IdleRequest ==
    [pc |-> "idle", op |-> None, kind |-> None, name |-> None, version |-> V100,
     config |-> None, runtime |-> "local", result |-> None]

\* deploy-server up to the call of the service: the resource type.
DeployServer_Begin(w) ==
    /\ dc[w].pc = "idle"
    /\ dcalls < MaxDeployCalls
    /\ dcalls' = dcalls + 1
    /\ \E rq \in DeployInputs :
        LET call == [IdleRequest EXCEPT !.op = "deploy", !.kind = ResourceTypeOf(rq.resourceType),
                                        !.name = rq.name, !.version = rq.version,
                                        !.config = rq.config, !.runtime = rq.runtime]
        IN IF ~ValidResourceType(ResourceTypeOf(rq.resourceType))
           THEN dc' = [dc EXCEPT ![w] = [call EXCEPT !.pc = "done", !.result = ErrBadRequest]]
           ELSE dc' = [dc EXCEPT ![w] = [call EXCEPT !.pc = "check"]]
    /\ UNCHANGED deployments
    /\ UNCHANGED <<catalogueVars, runtimeVars, imp, au, app, tr, cli>>

\* Deploy: the referenced version is looked up.
DeployServer_Check(w) ==
    /\ dc[w].pc = "check"
    /\ IF VersionDeployable(rows, dc[w].kind, dc[w].name, dc[w].version)
       THEN dc' = [dc EXCEPT ![w].pc = "write"]
       ELSE dc' = [dc EXCEPT ![w].pc = "done", ![w].result = ErrNotFound]
    /\ UNCHANGED <<deployments, dcalls>>
    /\ UNCHANGED <<catalogueVars, runtimeVars, imp, au, app, tr, cli>>

\* Deploy: the row is written.
DeployServer_Write(w) ==
    /\ dc[w].pc = "write"
    /\ deployments' = UpsertDeployment(deployments,
            Deployment(dc[w].kind, dc[w].name, dc[w].version, dc[w].config, dc[w].runtime))
    /\ dc' = [dc EXCEPT ![w].pc = "reconcile"]
    /\ UNCHANGED dcalls
    /\ UNCHANGED <<catalogueVars, runtimeVars, imp, au, app, tr, cli>>

\* Deploy: the deployments of the target are reconciled; an error of the
\* runtime is returned.
DeployServer_Reconcile(w) ==
    /\ dc[w].pc = "reconcile"
    /\ LET b == dc[w].runtime
           ds == DesiredOf(deployments, b)
       IN \E fault \in BOOLEAN :
            IF fault
            THEN /\ dc' = [dc EXCEPT ![w].pc = "done", ![w].result = ErrApply]
                 /\ UNCHANGED <<cluster, localrt>>
            ELSE /\ dc' = [dc EXCEPT ![w].pc = "done", ![w].result = OK]
                 /\ IF b = "kubernetes"
                    THEN /\ cluster' = IF KubernetesNothingToDo(ds) THEN cluster
                                       ELSE ApplyAll(cluster, ApplyOrder(ds))
                         /\ UNCHANGED localrt
                    ELSE /\ localrt' = [localrt EXCEPT
                                !.compose = WriteFile(@, DockerCompose(ds)),
                                !.gateway = WriteFile(@, AgentGateway(ds)),
                                !.containers = ComposeUp(DockerCompose(ds), @, localrt.ups + 1),
                                !.ups = @ + 1]
                         /\ UNCHANGED cluster
    /\ UNCHANGED <<deployments, dcalls>>
    /\ UNCHANGED <<rc, lastRun, started>>
    /\ UNCHANGED <<catalogueVars, imp, au, app, tr, cli>>

\* update-deployment-config: PUT /v0/deployments/a%2Fx/versions/1.0.0 with
\* the configuration c2.
UpdateDeploymentConfig(w) ==
    /\ dc[w].pc = "idle"
    /\ dcalls < MaxDeployCalls
    /\ dcalls' = dcalls + 1
    /\ LET rq == [name |-> "a/x", version |-> V100, config |-> "c2"] IN
        LET call == [IdleRequest EXCEPT !.op = "config", !.name = rq.name,
                                        !.version = rq.version, !.config = rq.config]
        IN IF GetDeploymentByNameAndVersion(deployments, rq.name, rq.version) = {}
           THEN /\ dc' = [dc EXCEPT ![w] = [call EXCEPT !.pc = "done", !.result = ErrNotFound]]
                /\ UNCHANGED deployments
           ELSE /\ dc' = [dc EXCEPT ![w] = [call EXCEPT !.pc = "done", !.result = OK]]
                /\ deployments' = UpdateDeploymentConfigRows(deployments, rq.name, rq.version, rq.config)
    /\ UNCHANGED <<catalogueVars, runtimeVars, imp, au, app, tr, cli>>

\* remove-server: DELETE /v0/deployments/a%2Fx/versions/1.0.0.
RemoveServer(w) ==
    /\ dc[w].pc = "idle"
    /\ dcalls < MaxDeployCalls
    /\ dcalls' = dcalls + 1
    /\ LET rq == [name |-> "a/x", version |-> V100] IN
        LET call == [IdleRequest EXCEPT !.op = "remove", !.name = rq.name, !.version = rq.version]
        IN IF GetDeploymentByNameAndVersion(deployments, rq.name, rq.version) = {}
           THEN /\ dc' = [dc EXCEPT ![w] = [call EXCEPT !.pc = "done", !.result = ErrNotFound]]
                /\ UNCHANGED deployments
           ELSE /\ dc' = [dc EXCEPT ![w] = [call EXCEPT !.pc = "done", !.result = OK]]
                /\ deployments' = RemoveDeployment(deployments, rq.name, rq.version)
    /\ UNCHANGED <<catalogueVars, runtimeVars, imp, au, app, tr, cli>>

\* The request is answered; the worker serves the next one.
Deployment_Return(w) ==
    /\ dc[w].pc = "done"
    /\ dc' = [dc EXCEPT ![w] = IdleRequest]
    /\ UNCHANGED <<deployments, dcalls>>
    /\ UNCHANGED <<catalogueVars, runtimeVars, imp, au, app, tr, cli>>

InitDeploy ==
    /\ deployments = {}
    /\ dc = [w \in Workers |-> IdleRequest]
    /\ dcalls = 0

\* ---------------------------------------------------------------- registry import
\* A mock registry serves at most MaxPages pages.
MaxPages == 2

ErrFetch == "fetch_failed"

\* An entry of a registry response: its name, its status, and what goes
\* wrong when it is stored (nothing, json.Marshal of its data, or
\* AddOrUpdateServer).
ServerEntry(name, status, fails) == [name |-> name, status |-> status, fails |-> fails]

\* The pages a mock registry is made of.
PagePool ==
    { <<>>,
      <<ServerEntry("s1", "", "none"), ServerEntry("s2", "deprecated", "none")>>,
      <<ServerEntry("s3", "active", "store"), ServerEntry("s4", "active", "none")>>,
      <<ServerEntry("s5", "deleted", "none"), ServerEntry("s6", "active", "marshal"),
        ServerEntry("s1", "active", "none")>> }

RECURSIVE SeqsUpTo(_, _)
SeqsUpTo(S, n) ==
    IF n = 0 THEN {<<>>}
    ELSE LET shorter == SeqsUpTo(S, n - 1)
         IN shorter \cup {Append(q, x) : q \in shorter, x \in S}

\* A registry: its pages, in the order its cursors lead through them.
Registries == SeqsUpTo(PagePool, MaxPages) \ {<<>>}

\* The cursor that leads to page i; the first page is asked for without.
CursorOf(i) == IF i = 1 THEN "" ELSE IF i = 2 THEN "p2" ELSE IF i = 3 THEN "p3" ELSE "p4"

\* GET baseURL?limit=100&cursor=...: RegistryResponse{Servers, Metadata.NextCursor}
RegistryResponse(reg, cursor) ==
    LET i == CHOOSE j \in 1..Len(reg) : CursorOf(j) = cursor
    IN [servers |-> reg[i],
        nextCursor |-> IF i < Len(reg) THEN CursorOf(i + 1) ELSE ""]

\* The response of a registry whose last page names itself as the next one.
RepeatingRegistryResponse(reg, cursor) ==
    LET resp == RegistryResponse(reg, cursor)
    IN IF resp.nextCursor = "" THEN [resp EXCEPT !.nextCursor = CursorOf(Len(reg))]
       ELSE resp

IsActiveStatus_OnlyActive(status) == status = "active"

\* server.Server.Status == "" || server.Server.Status == "active"
IsActiveStatus(status) == status = "" \/ status = "active"

RECURSIVE activeServers(_)
activeServers(servers) ==
    IF servers = <<>> THEN <<>>
    ELSE IF IsActiveStatus(Head(servers).status)
         THEN <<Head(servers)>> \o activeServers(Tail(servers))
         ELSE activeServers(Tail(servers))

\* INSERT ... ON CONFLICT(registry_id, name, version) DO UPDATE
AddOrUpdateServer(db, e) ==
    {r \in db : r.name # e.name} \cup {[name |-> e.name, data |-> e]}

StoreLoopAfterFailure_Abort(todo) == <<>>

\* failCount++; continue
StoreLoopAfterFailure(todo) == Tail(todo)

\* connect --fetch: the registry is added, FetchAllServers starts.
connectCmd_Begin ==
    /\ imp.pc = "idle"
    /\ \E reg \in Registries :
          imp' = [imp EXCEPT !.pc = "fetch", !.registry = reg]
    /\ UNCHANGED <<catalogueVars, runtimeVars, deployVars, au, app, tr, cli>>

\* connect --fetch to a registry of two or more pages whose cursors repeat.
connectCmd_BeginRepeating ==
    /\ imp.pc = "idle"
    /\ \E reg \in {r \in Registries : Len(r) >= 2} :
          imp' = [imp EXCEPT !.pc = "fetch", !.registry = reg, !.repeats = TRUE]
    /\ UNCHANGED <<catalogueVars, runtimeVars, deployVars, au, app, tr, cli>>

\* One turn of the loop of FetchAllServers: a page is fetched with the
\* cursor, its active servers are collected, the loop ends on an empty
\* nextCursor.  A failed request ends FetchAllServers with (nil, err).
FetchAllServers_Page ==
    /\ imp.pc = "fetch"
    /\ imp.pageCount < MaxFetches
    /\ \E fault \in BOOLEAN :
        IF fault
        THEN imp' = [imp EXCEPT !.pc = "done", !.pageCount = @ + 1,
                                !.sent = Append(@, imp.cursor),
                                !.allServers = <<>>, !.err = ErrFetch]
        ELSE LET registryResp == IF imp.repeats
                                 THEN RepeatingRegistryResponse(imp.registry, imp.cursor)
                                 ELSE RegistryResponse(imp.registry, imp.cursor)
                 all == imp.allServers \o activeServers(registryResp.servers)
             IN IF registryResp.nextCursor = ""
                THEN imp' = [imp EXCEPT !.pc = "store", !.pageCount = @ + 1,
                                        !.sent = Append(@, imp.cursor),
                                        !.allServers = all, !.todo = all]
                ELSE imp' = [imp EXCEPT !.pageCount = @ + 1,
                                        !.sent = Append(@, imp.cursor),
                                        !.allServers = all,
                                        !.cursor = registryResp.nextCursor]
    /\ UNCHANGED <<catalogueVars, runtimeVars, deployVars, au, app, tr, cli>>

\* One turn of the store loop.
connectCmd_Store ==
    /\ imp.pc = "store"
    /\ imp.todo # <<>>
    /\ LET serverEntry == Head(imp.todo)
       IN IF serverEntry.fails = "marshal"
          THEN imp' = [imp EXCEPT !.failCount = @ + 1, !.todo = StoreLoopAfterFailure(@)]
          ELSE IF serverEntry.fails = "store"
          THEN imp' = [imp EXCEPT !.failCount = @ + 1, !.todo = StoreLoopAfterFailure(@)]
          ELSE imp' = [imp EXCEPT !.db = AddOrUpdateServer(@, serverEntry),
                                  !.successCount = @ + 1, !.todo = Tail(@)]
    /\ UNCHANGED <<catalogueVars, runtimeVars, deployVars, au, app, tr, cli>>

\* The store loop is over: the counts are printed.
connectCmd_Finish ==
    /\ imp.pc = "store"
    /\ imp.todo = <<>>
    /\ imp' = [imp EXCEPT !.pc = "done"]
    /\ UNCHANGED <<catalogueVars, runtimeVars, deployVars, au, app, tr, cli>>

InitImport ==
    imp = [pc |-> "idle", registry |-> <<>>, repeats |-> FALSE, cursor |-> "", pageCount |-> 0,
           sent |-> <<>>, allServers |-> <<>>, todo |-> <<>>, db |-> {},
           successCount |-> 0, failCount |-> 0, err |-> None]

\* ---------------------------------------------------------------- authorization
\* A registry JWT: the key it is signed with, whether it has expired, the
\* permissions of its claims.
Token(signedBy, expired, permissions) ==
    [signedBy |-> signedBy, expired |-> expired, permissions |-> permissions]

NoToken == Token("", FALSE, {})

\* A resource name namespace/id; in a permission pattern "*" stands for
\* every namespace, or for every identifier of the namespace.
ResourceName(ns, id) == [ns |-> ns, id |-> id]

Permission(action, pattern) == [action |-> action, pattern |-> pattern]

PermissionActionPublish == "publish"

AgentNames == {ResourceName("io.a", "x"), ResourceName("io.b", "y")}

Tokens ==
    { Token("k1", FALSE, {Permission(PermissionActionPublish, ResourceName("*", "*"))}),
      Token("k1", FALSE, {Permission(PermissionActionPublish, ResourceName("io.a", "*"))}),
      Token("k1", FALSE, {Permission(PermissionActionPublish, ResourceName("io.b", "y"))}),
      Token("k1", FALSE, {Permission("edit", ResourceName("*", "*"))}),
      Token("k1", TRUE,  {Permission(PermissionActionPublish, ResourceName("*", "*"))}),
      Token("k2", FALSE, {Permission(PermissionActionPublish, ResourceName("*", "*"))}) }

\* The Authorization header: absent, or a scheme followed by a token.
Authorization(scheme, token) == [scheme |-> scheme, token |-> token]

AuthorizationHeaders ==
    {Authorization("", NoToken), Authorization("Bearer", NoToken)}
        \cup {Authorization(sc, t) : sc \in {"Bearer", "bearer", "Basic"}, t \in Tokens}

\* strings.EqualFold(authHeader[:len(bearerPrefix)], bearerPrefix)
HasBearerPrefix(h) == h.scheme \in {"Bearer", "bearer", "BEARER"}

\* ValidateToken: the signature is checked against the configured key, and
\* the expiry.
ValidateToken(key, token) == key # "" /\ token.signedBy = key /\ ~token.expired

\* HasPermission(name, action, permissions): a permission of the action
\* whose pattern is "*", the name, or a prefix of it.
HasPermission(name, action, permissions) ==
    \E q \in permissions :
        /\ q.action = action
        /\ \/ q.pattern.ns = "*"
           \/ q.pattern.ns = name.ns /\ (q.pattern.id = "*" \/ q.pattern.id = name.id)

\* The status the publish-agent handler answers with.
publishAgentStatus(key, h, name, agents) ==
    IF ~HasBearerPrefix(h) THEN 401
    ELSE IF ~ValidateToken(key, h.token) THEN 401
    ELSE IF ~HasPermission(name, PermissionActionPublish, h.token.permissions) THEN 403
    ELSE IF name \in agents THEN 400
    ELSE 200

DeploymentTools ==
    {"list_deployments", "get_deployment", "deploy_server", "deploy_agent",
     "update_deployment_config", "remove_deployment"}

MCPAuthRequired_Always(jwtPrivateKey) == TRUE

\* if cfg.JWTPrivateKey != "" { jwtManager = NewJWTManager(cfg) };
\* if jwtManager != nil { ... RequireBearerToken ... }
MCPAuthRequired(jwtPrivateKey) == jwtPrivateKey # ""

ErrBearerToken == "invalid or missing bearer token"

NoResponse ==
    [kind |-> "none", header |-> Authorization("", NoToken),
     name |-> ResourceName("", ""), tool |-> "", status |-> 0, created |-> FALSE,
     isError |-> FALSE, content |-> "", fresh |-> FALSE, served |-> FALSE]

\* App: the configuration is read, the endpoints are registered.
App_Start ==
    /\ au.pc = "boot"
    /\ \E JWTPrivateKey \in {"", "k1"} : au' = [au EXCEPT !.pc = "serving", !.key = JWTPrivateKey]
    /\ UNCHANGED <<catalogueVars, runtimeVars, deployVars, imp, app, tr, cli>>

\* POST {prefix}/agents/publish.
PublishAgent ==
    /\ au.pc = "serving"
    /\ \E h \in AuthorizationHeaders, name \in AgentNames :
        LET status == publishAgentStatus(au.key, h, name, au.agents)
        IN au' = [au EXCEPT
                    !.agents = IF status = 200 THEN @ \cup {name} ELSE @,
                    !.last = [NoResponse EXCEPT
                                !.kind = "publish", !.header = h, !.name = name,
                                !.status = status, !.created = (status = 200),
                                !.fresh = name \notin au.agents]]
    /\ UNCHANGED <<catalogueVars, runtimeVars, deployVars, imp, app, tr, cli>>

\* A call of a deployment tool over MCP, with the token it carries (none:
\* NoToken).  A call that passes reaches the registry service.
MCPToolCall ==
    /\ au.pc = "serving"
    /\ \E tool \in DeploymentTools, token \in Tokens \cup {NoToken} :
        LET h == IF token = NoToken THEN Authorization("", NoToken)
                 ELSE Authorization("Bearer", token)
            rejected == MCPAuthRequired(au.key) /\ ~ValidateToken(au.key, token)
        IN au' = [au EXCEPT
                    !.last = [NoResponse EXCEPT
                                !.kind = "tool", !.header = h, !.tool = tool,
                                !.isError = rejected, !.served = ~rejected,
                                !.content = IF rejected THEN ErrBearerToken ELSE "deployments"]]
    /\ UNCHANGED <<catalogueVars, runtimeVars, deployVars, imp, app, tr, cli>>

InitAuth ==
    au = [pc |-> "boot", key |-> "", agents |-> {}, last |-> NoResponse]


\* ---------------------------------------------------------------- translators
\* MCPServerRunRequest: the descriptor's remotes and packages, in their
\* order, and the preference of the deployment.
ServerRunRequests ==
    { [name |-> "s", remotes |-> rs, packages |-> ps, preferRemote |-> b] :
        rs \in {<<>>, <<"u1">>, <<"u2", "u1">>},
        ps \in {<<>>, <<"p1">>, <<"p2", "p1">>},
        b \in BOOLEAN }

useRemote_OnlyPreferred(serverReq) ==
    serverReq.preferRemote /\ Len(serverReq.remotes) > 0

\* useRemote := len(server.Remotes) > 0 && (serverReq.PreferRemote || len(server.Packages) == 0)
useRemote(serverReq) ==
    Len(serverReq.remotes) > 0 /\ (serverReq.preferRemote \/ Len(serverReq.packages) = 0)

\* createResolvedMCPServerConfigs: a request without remotes and packages is
\* skipped; the first remote is taken for the remote type; the command type
\* carries no URL.
RECURSIVE createResolvedMCPServerConfigs(_)
createResolvedMCPServerConfigs(requests) ==
    IF requests = <<>> THEN <<>>
    ELSE LET serverReq == Head(requests)
             rest == createResolvedMCPServerConfigs(Tail(requests))
         IN IF Len(serverReq.remotes) = 0 /\ Len(serverReq.packages) = 0
            THEN rest
            ELSE IF useRemote(serverReq)
            THEN <<[name |-> serverReq.name, type |-> "remote",
                    url |-> serverReq.remotes[1]]>> \o rest
            ELSE <<[name |-> serverReq.name, type |-> "command", url |-> ""]>> \o rest

\* const DefaultNamespace = "default"
DefaultNamespace == "default"

\* Deployment.Env of an artifact: KAGENT_NAMESPACE is absent, empty or set.
Envs ==
    { [has |-> FALSE, value |-> ""], [has |-> TRUE, value |-> ""],
      [has |-> TRUE, value |-> "team"] }

\* The namespace the translator gives an object of the kind: translateAgent,
\* translateAgentConfigMap and translateLocalMCPServer read
\* Env["KAGENT_NAMESPACE"]; translateRemoteMCPServer takes the default.
translateNamespace(kind, env) ==
    IF kind = "RemoteMCPServer" THEN DefaultNamespace
    ELSE IF env.has /\ env.value # "" THEN env.value
    ELSE DefaultNamespace

\* Characters of names: a lower-case letter, an upper-case letter, a digit
\* and a separator.
Chars == {"a", "A", "1", "/"}

ArtifactNames == SeqsUpTo(Chars, MaxNameLen) \ {<<>>}

\* Versions of artifacts: none, or "1".
ArtifactVersions == {<<>>, <<"1">>}

\* sanitizeK8sName: the value in lower case; letters and digits are kept, a
\* run of other characters becomes one dash; dashes are trimmed from both
\* ends (strings.Trim); an empty result becomes "agent".
sanitizeK8sName(value) ==
    LET ToLower(c) == IF c = "A" THEN "a" ELSE c
        RECURSIVE loop(_, _)
        loop(v, prevDash) ==
            IF v = <<>> THEN <<>>
            ELSE LET r == ToLower(Head(v))
                 IN IF r \in {"a", "1"}
                    THEN <<r>> \o loop(Tail(v), FALSE)
                    ELSE IF ~prevDash
                    THEN <<"-">> \o loop(Tail(v), TRUE)
                    ELSE loop(Tail(v), TRUE)
        RECURSIVE Trim(_)
        Trim(v) ==
            IF v # <<>> /\ Head(v) = "-" THEN Trim(Tail(v))
            ELSE IF v # <<>> /\ v[Len(v)] = "-" THEN Trim(SubSeq(v, 1, Len(v) - 1))
            ELSE v
        trimmed == Trim(loop(value, FALSE))
    IN IF trimmed = <<>> THEN <<"a", "g", "e", "n", "t">> ELSE trimmed

\* AgentResourceName(name, version), RemoteMCPResourceName(name) and
\* MCPServerResourceName(name): the name of the object of the kind.
KubernetesResourceName(kind, name, version) ==
    IF kind = "Agent" /\ version # <<>>
    THEN sanitizeK8sName(name \o <<"-">> \o version)
    ELSE sanitizeK8sName(name)

NoTranslation ==
    [op |-> "none", requests |-> <<>>, configs |-> <<>>, err |-> None,
     kind |-> "", env |-> [has |-> FALSE, value |-> ""], namespaces |-> {},
     first |-> <<>>, second |-> <<>>, objects |-> {}]

\* ReconcileAll resolves the MCP servers of an agent.
createResolvedMCPServerConfigs_Call ==
    /\ tr.op = "none"
    /\ \E requests \in SeqsUpTo(ServerRunRequests, MaxRequests) :
          tr' = [NoTranslation EXCEPT
                    !.op = "resolve", !.requests = requests,
                    !.configs = createResolvedMCPServerConfigs(requests)]
    /\ UNCHANGED <<catalogueVars, runtimeVars, deployVars, imp, au, app, cli>>

\* TranslateRuntimeConfig of a DesiredState with one artifact, deployed with
\* env: an agent with resolved MCP servers (Agent and ConfigMap), a remote
\* MCP server or a local MCP server.
TranslateRuntimeConfig_Call ==
    /\ tr.op = "none"
    /\ \E kind \in {"Agent", "RemoteMCPServer", "MCPServer"}, env \in Envs :
        LET kinds == IF kind = "Agent" THEN {"Agent", "ConfigMap"} ELSE {kind}
        IN tr' = [NoTranslation EXCEPT
                    !.op = "translate", !.kind = kind, !.env = env,
                    !.namespaces = {[kind |-> k, namespace |-> translateNamespace(k, env)] :
                                      k \in kinds}]
    /\ UNCHANGED <<catalogueVars, runtimeVars, deployVars, imp, au, app, cli>>

\* ensureKubernetesRuntime on an empty namespace for a DesiredState with two
\* artifacts of a kind: the object of the first is applied, then the object
\* of the second.
ensureKubernetesRuntime_ApplyTwo ==
    /\ tr.op = "none"
    /\ \E kind \in {"Agent", "RemoteMCPServer", "MCPServer"},
          n1 \in ArtifactNames, n2 \in ArtifactNames,
          v1 \in ArtifactVersions, v2 \in ArtifactVersions :
        LET o1 == Resource(kind, KubernetesResourceName(kind, n1, v1), <<n1, v1>>)
            o2 == Resource(kind, KubernetesResourceName(kind, n2, v2), <<n2, v2>>)
        IN tr' = [NoTranslation EXCEPT
                    !.op = "apply", !.kind = kind,
                    !.first = <<n1, v1>>, !.second = <<n2, v2>>,
                    !.objects = applyResource(applyResource({}, o1), o2)]
    /\ UNCHANGED <<catalogueVars, runtimeVars, deployVars, imp, au, app, cli>>

InitTranslate == tr = NoTranslation

\* ---------------------------------------------------------------- command line
\* The MCP servers the connected registry lists.
CliServers == {"s1", "s2", "s3"}

\* Where ReconcileMCPServers fails: nowhere; before it has written anything
\* (translation, agent gateway image, runtime directory); in docker compose
\* up, after both files are written.
CliFaults == {"none", "mkdir", "up"}

\* ReconcileMCPServers(requests) on the runtime directory rt: the compose
\* file and the gateway configuration are written for the requested servers
\* and nothing else, then docker compose up -d --remove-orphans leaves the
\* services of the file running.
ReconcileMCPServers(rt, requests, fault) ==
    CASE fault = "mkdir" -> rt
      [] fault = "up"    -> [rt EXCEPT !.compose = requests, !.gateway = requests]
      [] fault = "none"  -> [rt EXCEPT !.compose = requests, !.gateway = requests,
                                       !.running = requests, !.applied = requests]

\* UPDATE servers SET installed = ? WHERE id = ?
MarkServerInstalled(db, name, installed) ==
    {IF r.name = name THEN [r EXCEPT !.installed = installed] ELSE r : r \in db}

\* INSERT INTO servers ... ON CONFLICT(registry_id, name, version) DO UPDATE:
\* a new row has installed = 0 (the column's default), a row that is there
\* keeps its flag.
AddOrUpdateServerRow(db, name) ==
    IF \E r \in db : r.name = name THEN db
    ELSE db \cup {[name |-> name, installed |-> FALSE]}

RECURSIVE StoreServers(_, _)
StoreServers(db, names) ==
    IF names = {} THEN db
    ELSE LET n == CHOOSE x \in names : TRUE
         IN StoreServers(AddOrUpdateServerRow(db, n), names \ {n})

\* The names marked installed.
InstalledServers(db) == {r.name : r \in {x \in db : x.installed}}

\* A command has run: what it was, how it ended, and the database and the
\* running servers it found.
Ran(op, name, err, db, rt) ==
    [op |-> op, name |-> name, err |-> err, servers |-> db, running |-> rt.running]

\* arctl install mcp <name>: the server must be known and not installed;
\* ReconcileMCPServers is called with the request of this server alone; the
\* server is marked installed when it returns nil.
installMCPServer ==
    /\ cli.commands < MaxCommands
    /\ \E name \in CliServers, fault \in CliFaults :
        IF ~\E r \in cli.db : r.name = name /\ ~r.installed
        THEN cli' = [cli EXCEPT !.commands = @ + 1,
                                !.last = Ran("install", name, ErrNotFound, cli.db, cli.rt)]
        ELSE LET rt == ReconcileMCPServers(cli.rt, {name}, fault)
             IN IF fault # "none"
                THEN cli' = [cli EXCEPT !.commands = @ + 1, !.rt = rt,
                                        !.last = Ran("install", name, ErrApply, cli.db, cli.rt)]
                ELSE cli' = [cli EXCEPT !.commands = @ + 1, !.rt = rt,
                                        !.db = MarkServerInstalled(@, name, TRUE),
                                        !.last = Ran("install", name, OK, cli.db, cli.rt)]
    /\ UNCHANGED <<catalogueVars, runtimeVars, deployVars, imp, au, app, tr>>

\* arctl uninstall mcp <name>: the server must be installed; it is marked
\* uninstalled, then ReconcileMCPServers is called with the servers that
\* are still marked installed.
uninstallMCPServer ==
    /\ cli.commands < MaxCommands
    /\ \E name \in CliServers, fault \in CliFaults :
        IF ~\E r \in cli.db : r.name = name /\ r.installed
        THEN cli' = [cli EXCEPT !.commands = @ + 1,
                                !.last = Ran("uninstall", name, ErrNotFound, cli.db, cli.rt)]
        ELSE LET db == MarkServerInstalled(cli.db, name, FALSE)
                 rt == ReconcileMCPServers(cli.rt, InstalledServers(db), fault)
             IN cli' = [cli EXCEPT !.commands = @ + 1, !.db = db, !.rt = rt,
                                   !.last = Ran("uninstall", name,
                                                IF fault = "none" THEN OK ELSE ErrApply,
                                                cli.db, cli.rt)]
    /\ UNCHANGED <<catalogueVars, runtimeVars, deployVars, imp, au, app, tr>>

\* arctl refresh: FetchAllServers fails and the registry is skipped, or it
\* returns the servers the registry lists now; then ClearRegistryServers
\* deletes the rows of the registry and the store loop adds a row for each
\* server that can be stored.
refreshCmd ==
    /\ cli.commands < MaxCommands
    /\ \E fetched \in SUBSET CliServers, failed \in SUBSET CliServers, fault \in BOOLEAN :
        /\ failed \subseteq fetched
        /\ Cardinality(failed) <= 1
        /\ IF fault
           THEN /\ fetched = {} /\ failed = {}
                /\ cli' = [cli EXCEPT !.commands = @ + 1,
                                      !.last = Ran("refresh", fetched, ErrFetch, cli.db, cli.rt)]
           ELSE cli' = [cli EXCEPT !.commands = @ + 1,
                                   !.db = StoreServers({}, fetched \ failed),
                                   !.last = Ran("refresh", fetched \ failed, OK, cli.db, cli.rt)]
    /\ UNCHANGED <<catalogueVars, runtimeVars, deployVars, imp, au, app, tr>>

\* After arctl connect: the servers of the registry are stored, none is
\* installed, the runtime directory is empty.
InitCli ==
    cli = [commands |-> 0,
           db |-> {[name |-> n, installed |-> FALSE] : n \in CliServers},
           rt |-> [compose |-> {}, gateway |-> {}, running |-> {}, applied |-> {}],
           last |-> [op |-> "none", name |-> "", err |-> None, servers |-> {}, running |-> {}]]

\* ---------------------------------------------------------------- startup
\* context.WithTimeout(context.Background(), 2*time.Minute): minutes of the
\* startup reconciliation.
StartupReconcileTimeout == 2

ErrDeadlineExceeded == "context_deadline_exceeded"

\* ctx.Done() of the startup context after elapsed minutes.
ContextDone_Never(elapsed) == FALSE

ContextDone(elapsed) == elapsed >= StartupReconcileTimeout

\* App up to the startup reconciliation: the configuration is read, the
\* service is created; with cfg.ReconcileOnStartup the reconciliation is
\* called under the deadline.
App_Configure ==
    /\ app.pc = "boot"
    /\ \E ReconcileOnStartup \in BOOLEAN :
        app' = [app EXCEPT !.pc = IF ReconcileOnStartup THEN "reconcile" ELSE "newserver",
                           !.reconciled = ReconcileOnStartup]
    /\ UNCHANGED <<catalogueVars, runtimeVars, deployVars, imp, au, tr, cli>>

\* A minute of the startup reconciliation passes.
App_Minute ==
    /\ app.pc = "reconcile"
    /\ app.elapsed < StartupReconcileTimeout
    /\ app' = [app EXCEPT !.elapsed = @ + 1]
    /\ UNCHANGED <<catalogueVars, runtimeVars, deployVars, imp, au, tr, cli>>

\* The context of the call is done while the call waits in c.Patch or in
\* the docker compose command: the wait ends with the context's error.
ReconcileAll_ContextDone(w) ==
    /\ app.pc = "reconcile"
    /\ ContextDone(app.elapsed)
    /\ rc[w].pc \in {"apply", "up"}
    /\ Finish(w, ErrDeadlineExceeded)
    /\ UNCHANGED <<cluster, localrt, started, app, tr, cli>>
    /\ UNCHANGED <<catalogueVars, deployVars, imp, au, tr, cli>>

\* registryService.ReconcileAll has returned: an error is logged as a
\* warning, and App goes on.
App_Reconciled ==
    /\ app.pc = "reconcile"
    /\ rc["w1"].pc = "done"
    /\ app' = [app EXCEPT !.pc = "newserver", !.err = rc["w1"].result]
    /\ rc' = [rc EXCEPT !["w1"] = IdleCaller]
    /\ UNCHANGED <<cluster, localrt, lastRun, started>>
    /\ UNCHANGED <<catalogueVars, deployVars, imp, au, tr, cli>>

\* api.NewServer and go server.Start().
App_ServerStart ==
    /\ app.pc = "newserver"
    /\ app' = [app EXCEPT !.pc = "serving"]
    /\ UNCHANGED <<catalogueVars, runtimeVars, deployVars, imp, au, tr, cli>>

\* A read served by the HTTP server.
App_ServeRead ==
    /\ app.pc = "serving"
    /\ app.reads < MaxReads
    /\ app' = [app EXCEPT !.reads = @ + 1]
    /\ UNCHANGED <<catalogueVars, runtimeVars, deployVars, imp, au, tr, cli>>

InitApp ==
    app = [pc |-> "boot", reconciled |-> FALSE, elapsed |-> 0, err |-> None, reads |-> 0]

\* ---------------------------------------------------------------- specifications
InitCatalogue ==
    /\ rows = {}
    /\ lock = [n \in Names |-> None]
    /\ now = 0
    /\ pc = [p \in Procs |-> "idle"]
    /\ req = [p \in Procs |-> NoReq]
    /\ publishTime = [p \in Procs |-> 0]
    /\ result = [p \in Procs |-> None]

Init ==
    InitCatalogue /\ InitRuntime /\ InitDeploy /\ InitImport /\ InitAuth /\ InitApp
    /\ InitTranslate /\ InitCli

\* Publishes only, the clock running.
NextPublish ==
    \/ \E p \in Procs : CreateServer_Begin(p, PublishInputs)
    \/ \E p \in Procs : AcquirePublishLock(p)
    \/ \E p \in Procs : CheckRemotes(p)
    \/ \E p \in Procs : CreateServer_Write(p)
    \/ \E p \in Procs : Return(p)
    \/ Tick

SpecPublish == Init /\ [][NextPublish]_vars

\* Publishes and updates.
Next ==
    \/ \E p \in Procs : CreateServer_Begin(p, CataloguePublishInputs)
    \/ \E p \in Procs : UpdateServer_Begin(p)
    \/ \E p \in Procs : AcquirePublishLock(p)
    \/ \E p \in Procs : CheckRemotes(p)
    \/ \E p \in Procs : CreateServer_Write(p)
    \/ \E p \in Procs : UpdateServer_Write(p)
    \/ \E p \in Procs : Return(p)
    \/ Tick

Spec == Init /\ [][Next]_vars

\* Reconciles, one call at a time.
NextReconcile ==
    \/ ReconcileAll_Begin("w1", DesiredStates)
    \/ ensureKubernetesRuntime_Enter("w1")
    \/ ensureKubernetesRuntime_Apply("w1")
    \/ ensureLocalRuntime_MkdirAll("w1")
    \/ ensureLocalRuntime_WriteCompose("w1")
    \/ ensureLocalRuntime_WriteGateway("w1")
    \/ ensureLocalRuntime_ComposeUp("w1")
    \/ ReconcileAll_Return("w1")

SpecReconcile == Init /\ [][NextReconcile]_vars

\* Reconciles called from concurrently served requests.
NextReconcileConcurrent ==
    \/ \E w \in Workers : ReconcileAll_Begin(w, ConcurrentDesiredStates)
    \/ \E w \in Workers : ensureKubernetesRuntime_Enter(w)
    \/ \E w \in Workers : ensureKubernetesRuntime_Apply(w)
    \/ \E w \in Workers : ensureLocalRuntime_MkdirAll(w)
    \/ \E w \in Workers : ensureLocalRuntime_WriteCompose(w)
    \/ \E w \in Workers : ensureLocalRuntime_WriteGateway(w)
    \/ \E w \in Workers : ensureLocalRuntime_ComposeUp(w)
    \/ \E w \in Workers : ReconcileAll_Return(w)

SpecReconcileConcurrent == Init /\ [][NextReconcileConcurrent]_vars

\* Deployment requests served concurrently, with publishes and updates of
\* the catalogue.
NextDeploy ==
    \/ CreateServer_Begin("t1", DeployCatalogueInputs)
    \/ /\ UpdateServer_Begin("t1")
       /\ req'["t1"].newStatus \in {StatusDeleted, None}
       /\ req'["t1"].remotes = {} /\ req'["t1"].structOK /\ req'["t1"].registryOK
    \/ AcquirePublishLock("t1")
    \/ CheckRemotes("t1")
    \/ CreateServer_Write("t1")
    \/ UpdateServer_Write("t1")
    \/ Return("t1")
    \/ \E w \in Workers : DeployServer_Begin(w)
    \/ \E w \in Workers : DeployServer_Check(w)
    \/ \E w \in Workers : DeployServer_Write(w)
    \/ \E w \in Workers : DeployServer_Reconcile(w)
    \/ \E w \in Workers : UpdateDeploymentConfig(w)
    \/ \E w \in Workers : RemoveServer(w)
    \/ \E w \in Workers : Deployment_Return(w)

SpecDeploy == Init /\ [][NextDeploy]_vars

\* One import from a registry.
NextImport ==
    \/ connectCmd_Begin
    \/ FetchAllServers_Page
    \/ connectCmd_Store
    \/ connectCmd_Finish

SpecImport == Init /\ [][NextImport]_vars

\* One import from a registry whose cursors may repeat.
NextImportRepeating ==
    \/ connectCmd_Begin
    \/ connectCmd_BeginRepeating
    \/ FetchAllServers_Page
    \/ connectCmd_Store
    \/ connectCmd_Finish

SpecImportRepeating == Init /\ [][NextImportRepeating]_vars

\* Requests to the publish endpoint and to the MCP endpoint.
NextAuth ==
    \/ App_Start
    \/ PublishAgent
    \/ MCPToolCall

SpecAuth == Init /\ [][NextAuth]_vars

\* The registry process from its start: the startup reconciliation of the
\* deployments, then the HTTP server.
NextStartup ==
    \/ App_Configure
    \/ App_Minute
    \/ app.pc = "reconcile" /\ ReconcileAll_Begin("w1", DesiredStates)
    \/ ensureKubernetesRuntime_Enter("w1")
    \/ ensureKubernetesRuntime_Apply("w1")
    \/ ensureLocalRuntime_MkdirAll("w1")
    \/ ensureLocalRuntime_WriteCompose("w1")
    \/ ensureLocalRuntime_WriteGateway("w1")
    \/ ensureLocalRuntime_ComposeUp("w1")
    \/ ReconcileAll_ContextDone("w1")
    \/ App_Reconciled
    \/ App_ServerStart
    \/ App_ServeRead

SpecStartup == Init /\ [][NextStartup]_vars

\* The steps of App and the local steps of the reconciliation are taken
\* when they can be; a call to the Kubernetes API server or a docker
\* compose command may wait for ever, and ends when its context is done.
SpecStartupFair ==
    /\ SpecStartup
    /\ WF_vars(App_Configure) /\ WF_vars(App_Minute)
    /\ WF_vars(app.pc = "reconcile" /\ ReconcileAll_Begin("w1", DesiredStates))
    /\ WF_vars(ensureKubernetesRuntime_Enter("w1"))
    /\ WF_vars(ensureLocalRuntime_MkdirAll("w1"))
    /\ WF_vars(ensureLocalRuntime_WriteCompose("w1"))
    /\ WF_vars(ensureLocalRuntime_WriteGateway("w1"))
    /\ WF_vars(ReconcileAll_ContextDone("w1"))
    /\ WF_vars(App_Reconciled) /\ WF_vars(App_ServerStart) /\ WF_vars(App_ServeRead)

\* Calls of the resolver and of the Kubernetes translator.
NextTranslate ==
    \/ createResolvedMCPServerConfigs_Call
    \/ TranslateRuntimeConfig_Call
    \/ ensureKubernetesRuntime_ApplyTwo

SpecTranslate == Init /\ [][NextTranslate]_vars

\* Commands of the CLI, one after the other.
NextCli ==
    \/ installMCPServer
    \/ uninstallMCPServer
    \/ refreshCmd

SpecCli == Init /\ [][NextCli]_vars

\* ---------------------------------------------------------------- properties
InCritical(p) == pc[p] \in {"remotes", "write"}

\* The transaction p ends its call in this step.
Finishes(p) == pc[p] # "done" /\ pc'[p] = "done"

\* The row a successful publish of p has inserted in this step.
Inserted(p) == CHOOSE r \in rows' : r.name = req[p].name /\ r.version = req[p].version

\* C1: for every name, in every reachable state of publishes and updates,
\* at most one version of that name has isLatest = true.
C1_AtMostOneLatest ==
    \A n \in Names : Cardinality({r \in RowsOf(rows, n) : r.isLatest}) <= 1

\* a/x has two versions, the older one superseded and edited by an update.
C1_Witness ==
    \E r1, r2 \in RowsOf(rows, "a/x") :
        /\ r1.version = V100 /\ ~r1.isLatest /\ r1.status = StatusDeprecated
        /\ r2.version = V110 /\ r2.isLatest

\* C2: of two concurrent publishes of the same name and version at most one
\* succeeds; they are never both past the lock, and once one has committed
\* the row is there for the other to observe, which then fails.
C2_ConcurrentPublish ==
    \A p, q \in Procs :
        (p # q /\ req[p].op = "publish" /\ req[q].op = "publish"
            /\ req[p].name = req[q].name) =>
        /\ ~(InCritical(p) /\ InCritical(q))
        /\ (req[p].version = req[q].version /\ pc[p] = "done" /\ result[p] = OK) =>
            /\ CheckVersionExists(rows, req[q].name, req[q].version)
            /\ Cardinality({r \in rows : r.name = req[p].name
                                         /\ r.version = req[p].version}) = 1
            /\ (pc[q] = "done" => result[q] # OK)

\* Two publishes of a/x 1.0.0: t2 read the clock first, t1 committed the row,
\* t2 then found it and failed.
C2_Witness ==
    /\ pc["t1"] = "done" /\ pc["t2"] = "done"
    /\ req["t1"].op = "publish" /\ req["t2"] = req["t1"]
    /\ publishTime["t2"] < publishTime["t1"]
    /\ result["t1"] = OK /\ result["t2"] = ErrInvalidVersion

\* Every transaction past the lock step holds the lock of its name.
C3_LockHeld ==
    \A p \in Procs : InCritical(p) => lock[req[p].name] = p

\* Rows of a name change only in the committing step of the transaction
\* that holds the lock of that name, which releases it in that step.
C3_WritesUnderLock ==
    \A n \in Names :
        RowsOf(rows', n) # RowsOf(rows, n) =>
            \E p \in Procs :
                /\ lock[n] = p /\ req[p].name = n
                /\ pc[p] = "write" /\ pc'[p] = "done"
                /\ lock'[n] = None

\* C3: every publish, update and status change takes the advisory lock of
\* its name before its first write to rows of that name and holds it until
\* commit or rollback; no two transactions write rows of one name at once.
C3_SingleWriter == []C3_LockHeld /\ [][C3_WritesUnderLock]_vars

\* An update of a/x holds the lock and is about to write while a publish of
\* a/x waits for the lock.
C3_Witness ==
    \E p, q \in Procs :
        /\ req[p].op = "update" /\ pc[p] = "write" /\ lock["a/x"] = p
        /\ req[q].op = "publish" /\ req[q].name = "a/x" /\ pc[q] = "lock"
        /\ rows # {}

\* C4: for every remote URL at most one name has a version whose remotes
\* contain it.
C4_RemoteURLUnique ==
    \A u \in URLs : Cardinality({r.name : r \in ListServersByRemoteURL(rows, u)}) <= 1

\* The effect of a committing publish on the latest flags of its name.
C5_LatestOnPublish_Step ==
    \A p \in Procs :
        (req[p].op = "publish" /\ Finishes(p) /\ result'[p] = OK) =>
            LET n == req[p].name
                cur == GetCurrentLatestVersion(rows, n)
                wins == \/ cur = NoRow
                        \/ CompareVersions(req[p].version, cur.version,
                                           publishTime[p], cur.publishedAt) > 0
            IN /\ Inserted(p).isLatest = wins
               /\ Inserted(p).publishedAt = publishTime[p]
               /\ cur # NoRow =>
                    IF wins
                    THEN [cur EXCEPT !.isLatest = FALSE] \in rows' /\ cur \notin rows'
                    ELSE cur \in rows'

\* C5: a successful publish stores the new version with isLatest = true and
\* unmarks the previous latest iff the name has no current latest or
\* Compare(new, currentLatest) > 0; otherwise the existing latest keeps the
\* flag, also when the new version has the later publishedAt.
C5_LatestOnPublish == [][C5_LatestOnPublish_Step]_vars

\* 1.1.0 is the latest of a/x although 1.0.0 was published after it.
C5_Witness ==
    \E r1, r2 \in RowsOf(rows, "a/x") :
        /\ r1.version = V110 /\ r1.isLatest
        /\ r2.version = V100 /\ ~r2.isLatest
        /\ r2.publishedAt > r1.publishedAt

\* The publish request p serves once this step is taken (Begin sets it).
Served(p) == req'[p]

\* A publish of an existing version that reaches the version checks.
C6_Original_Step ==
    \A p \in Procs :
        (Served(p).op = "publish" /\ Finishes(p) /\ pc[p] = "write"
            /\ CheckVersionExists(rows, Served(p).name, Served(p).version)) =>
            /\ result'[p] = ErrInvalidVersion
            /\ rows' = rows

\* C6 as stated: a publish of a (name, version) that already exists, having
\* passed validation and the duplicate remote URL check, fails with
\* InvalidVersion and changes nothing.
C6_Original == [][C6_Original_Step]_vars

\* The outcome of a publish of an existing version, by the check that ends it.
C6_DuplicatePublish_Step ==
    \A p \in Procs :
        (Served(p).op = "publish" /\ Finishes(p)
            /\ CheckVersionExists(rows, Served(p).name, Served(p).version)) =>
            /\ rows' = rows
            /\ result'[p] =
                 IF pc[p] = "idle" THEN ErrValidation
                 ELSE IF pc[p] = "remotes" THEN ErrRemoteConflict
                 ELSE IF CountServerVersions(rows, Served(p).name) >= maxServerVersionsPerServer
                 THEN ErrMaxServersReached
                 ELSE ErrInvalidVersion

\* C6 amended: a publish of a (name, version) that already exists fails and
\* changes nothing; the error is InvalidVersion unless an earlier check
\* fails first: validation, the duplicate remote URL check, or the version
\* ceiling (MaxVersionsReached for a name that is at the ceiling).
C6_DuplicatePublish == [][C6_DuplicatePublish_Step]_vars

\* A second publish of a/x 1.0.0 was refused with InvalidVersion while the
\* row of the first one is there, a/x being below the ceiling.
C6_Witness ==
    \E p \in Procs :
        /\ pc[p] = "done" /\ req[p].op = "publish" /\ result[p] = ErrInvalidVersion
        /\ req[p].name = "a/x" /\ req[p].version = V100
        /\ CountServerVersions(rows, "a/x") = 1
        /\ CheckVersionExists(rows, "a/x", V100)

\* No name has more versions than the ceiling.
C7_Ceiling ==
    \A n \in Names : CountServerVersions(rows, n) <= maxServerVersionsPerServer

\* A publish for a name at the ceiling fails with MaxVersionsReached and
\* creates no row.
C7_Refused_Step ==
    \A p \in Procs :
        (req[p].op = "publish" /\ pc[p] = "write" /\ Finishes(p)
            /\ CountServerVersions(rows, req[p].name) >= maxServerVersionsPerServer) =>
            /\ result'[p] = ErrMaxServersReached
            /\ rows' = rows

\* C7: no name ever has more than maxServerVersionsPerServer versions; a
\* publish for a name at the ceiling fails with MaxVersionsReached and
\* creates no row, after any interleaving of publishes.
C7_MaxVersions == []C7_Ceiling /\ [][C7_Refused_Step]_vars

\* a/x is at the ceiling and the publish of a further version was refused.
C7_Witness ==
    \E p \in Procs :
        /\ pc[p] = "done" /\ req[p].op = "publish" /\ result[p] = ErrMaxServersReached
        /\ CountServerVersions(rows, req[p].name) = maxServerVersionsPerServer
        /\ ~CheckVersionExists(rows, req[p].name, req[p].version)

\* The publishedAt of an inserted row against the rows of its name.
C8_Monotone_Step ==
    \A p \in Procs :
        (req[p].op = "publish" /\ Finishes(p) /\ result'[p] = OK) =>
            \A r \in RowsOf(rows, req[p].name) :
                r.publishedAt <= Inserted(p).publishedAt

\* C8: the publishedAt of the versions of a name increase in the order in
\* which the publishes of that name commit: a committing publish inserts a
\* row whose publishedAt is not before that of any row of the name.
C8_PublishedAtMonotone == [][C8_Monotone_Step]_vars

\* The status edges of an artifact version.
C9_Edge(old, new) ==
    \/ old = StatusActive /\ new = StatusDeprecated
    \/ old = StatusActive /\ new = StatusDeleted
    \/ old = StatusDeprecated /\ new = StatusDeleted

\* The status of a version changes only along an edge; an update that
\* requests another change is rejected and changes nothing.
C9_Status_Step ==
    /\ \A r \in rows : \A r2 \in rows' :
         (r2.name = r.name /\ r2.version = r.version /\ r2.status # r.status) =>
             C9_Edge(r.status, r2.status)
    /\ \A p \in Procs :
         (req[p].op = "update" /\ pc[p] = "write" /\ Finishes(p)
             /\ req[p].newStatus # None) =>
             LET cur == GetServerByNameAndVersion(rows, req[p].name, req[p].version)
             IN (cur.status # req[p].newStatus /\ ~C9_Edge(cur.status, req[p].newStatus)) =>
                    /\ result'[p] = ErrConflict
                    /\ rows' = rows

C10_Original_Step ==
    \A p \in Procs :
        LET rq == Served(p)
            cur == GetServerByNameAndVersion(rows, rq.name, rq.version)
        IN (rq.op = "update" /\ Finishes(p) /\ cur # NoRow
               /\ rq.newStatus \in {None, StatusDeleted} /\ rq.structOK) =>
               (cur.status = StatusDeleted => result'[p] = OK)

\* C10 as stated, for updates that ask for no status or for deleted: an
\* update of a version that is deleted, with a structurally valid request,
\* succeeds.
C10_Original == [][C10_Original_Step]_vars

\* Validation and outcome of an update of a deleted or to-be-deleted version.
C10_SkipValidation_Step ==
    \A p \in Procs :
        LET rq == Served(p)
            cur == GetServerByNameAndVersion(rows, rq.name, rq.version)
        IN (rq.op = "update" /\ Finishes(p) /\ cur # NoRow
               /\ (cur.status = StatusDeleted \/ rq.newStatus = StatusDeleted)) =>
               /\ pc[p] = "idle" => (result'[p] = ErrValidation /\ ~rq.structOK)
               /\ (rq.structOK /\ cur.status = StatusDeleted) =>
                    /\ result'[p] \in {OK, ErrRemoteConflict, ErrConflict}
                    /\ result'[p] = ErrRemoteConflict =>
                         ~validateNoDuplicateRemoteURLs(rows, rq.name, rq.remotes)
                    /\ result'[p] = ErrConflict =>
                         ~StatusTransitionAllowed(cur.status, rq.newStatus)

\* C10 amended: an update whose target is deleted when it is read, or whose
\* newStatus is deleted, is validated structurally and not against the
\* package registry; an update of a deleted version with a structurally
\* valid request is never refused by validation, and it succeeds unless
\* the duplicate remote URL check or the status transition refuses it.
C10_SkipValidation == [][C10_SkipValidation_Step]_vars

\* An update with a package identifier the registry rejects, asking for no
\* status change, succeeded on the deleted a/x 1.0.0.
C10_Witness ==
    \E p \in Procs :
        /\ pc[p] = "done" /\ req[p].op = "update" /\ result[p] = OK
        /\ ~req[p].registryOK /\ req[p].newStatus = None
        /\ GetServerByNameAndVersion(rows, "a/x", V100) # NoRow
        /\ GetServerByNameAndVersion(rows, "a/x", V100).status = StatusDeleted

\* The services that run, without the numbering of their containers.
Running(cs) == {Service(c.name, c.spec) : c \in cs}

\* The call of w returns in this step.
Returns(w) == rc[w].pc # "done" /\ rc'[w].pc = "done"

\* C11: after a successful Reconcile the runtime target holds no resource
\* that is absent from the DesiredState of that call: every object of the
\* Kubernetes namespace is one of the DesiredState, every container of the
\* local runtime is of a service of the DesiredState.
C11_NoOrphans ==
    \A w \in Workers :
        rc[w].pc = "done" /\ rc[w].result = OK =>
            IF rc[w].backend = "kubernetes"
            THEN \A r \in cluster :
                    \E d \in KubernetesResources(rc[w].desired) : SameObject(r, d)
            ELSE \A c \in localrt.containers :
                    \E sv \in DockerCompose(rc[w].desired) : sv.name = c.name

\* C12 as stated: a Reconcile that follows a successful Reconcile of the
\* same DesiredState on the same backend creates, deletes or changes
\* nothing, the containers included.
C12_Original_Step ==
    \A w \in Workers :
        rc'[w].repeat =>
            /\ cluster' = cluster
            /\ localrt'.compose = localrt.compose
            /\ localrt'.gateway = localrt.gateway
            /\ localrt'.containers = localrt.containers

C12_Idempotent_Step ==
    \A w \in Workers :
        rc'[w].repeat =>
            /\ cluster' = cluster
            /\ localrt'.mcp = localrt.mcp
            /\ localrt'.compose = localrt.compose
            /\ localrt'.gateway = localrt.gateway
            /\ Running(localrt'.containers) = Running(localrt.containers)
            /\ (rc'[w].pc = "done" /\ ~rc'[w].faulted => rc'[w].result = OK)

Converged(b, ds, cl, lr) ==
    IF b = "kubernetes"
    THEN KubernetesResources(ds) \subseteq cl
    ELSE /\ lr.compose = WriteFile(NoFile, DockerCompose(ds))
         /\ lr.gateway = WriteFile(NoFile, AgentGateway(ds))
         /\ Running(lr.containers) = DockerCompose(ds)

\* What the call has applied so far is there.
StillApplied(b, ds, applied, cl, lr) ==
    IF b = "kubernetes"
    THEN applied \subseteq cl
    ELSE /\ Resource("File", "docker-compose.yaml", "-") \in applied
                => lr.compose = WriteFile(NoFile, DockerCompose(ds))
         /\ Resource("File", "agent-gateway.yaml", "-") \in applied
                => lr.gateway = WriteFile(NoFile, AgentGateway(ds))

\* C13: a call of Reconcile in which an apply fails returns the error and
\* leaves what it had applied in place; a call that returns without error,
\* as the one repeated after the fault is gone, leaves everything the
\* DesiredState asks for in place.
C13_PartialFailure_Step ==
    \A w \in Workers :
        Returns(w) =>
            /\ rc'[w].faulted => rc'[w].result = ErrApply
            /\ rc'[w].result # OK =>
                  StillApplied(rc[w].backend, rc[w].desired, rc[w].applied, cluster', localrt')
            /\ rc'[w].result = OK =>
                  Converged(rc[w].backend, rc[w].desired, cluster', localrt')

C13_PartialFailure == [][C13_PartialFailure_Step]_vars

\* A Reconcile has succeeded that repeats one which failed after it had
\* applied part of the same DesiredState.
C13_Witness ==
    \E w \in Workers :
        /\ rc[w].pc = "done" /\ rc[w].retry /\ rc[w].result = OK
        /\ rc[w].backend = "kubernetes"
        /\ \E x \in rc[w].desired : x.kind = "remote"

\* The call of w has entered ReconcileAll and not returned.
InFlight(w) == rc[w].pc \notin {"idle", "done"}

\* C14: at most one Reconcile is in flight against a target at any time.
C14_OneInFlight ==
    \A b \in Backends :
        Cardinality({w \in Workers : InFlight(w) /\ rc[w].backend = b}) <= 1

\* C15: every row of the deployments table references a version that
\* exists in the catalogue and is not deleted, also after later updates and
\* status changes of that version.
C15_DeploymentsReference ==
    \A d \in deployments : VersionDeployable(rows, d.kind, d.name, d.version)

RECURSIVE Flatten(_)
Flatten(pages) == IF pages = <<>> THEN <<>> ELSE Head(pages) \o Flatten(Tail(pages))

Wanted(e) == e.status \in {"", "active"}

\* C17: FetchAllServers asks for the first page without cursor and for each
\* further page with the nextCursor of the response before, until a
\* response has an empty nextCursor; what it returns is the entries of all
\* these pages whose status is empty or active, in their order, and no
\* other entry.
C17_Pagination ==
    imp.pc \in {"store", "done"} /\ imp.err = None =>
        /\ imp.pageCount = Len(imp.registry)
        /\ Len(imp.sent) = Len(imp.registry)
        /\ imp.sent[1] = ""
        /\ \A i \in 2..Len(imp.sent) :
              imp.sent[i] = RegistryResponse(imp.registry, imp.sent[i - 1]).nextCursor
        /\ RegistryResponse(imp.registry, imp.sent[Len(imp.sent)]).nextCursor = ""
        /\ imp.allServers = SelectSeq(Flatten(imp.registry), Wanted)

\* Two pages have been fetched; entries were collected and entries skipped.
C17_Witness ==
    /\ imp.pc = "store" /\ imp.err = None
    /\ Len(imp.registry) = 2 /\ imp.sent = <<"", "p2">>
    /\ imp.allServers # <<>>
    /\ Len(imp.allServers) < Len(Flatten(imp.registry))

Storable(e) == e.fails = "none"

\* C18: when the import is over, every entry fetched has been counted as
\* stored or as failed, and every entry that can be stored is in the
\* database, whatever entries before it failed.
C18_ContinueOnFailure ==
    imp.pc = "done" /\ imp.err = None =>
        /\ imp.successCount = Len(SelectSeq(imp.allServers, Storable))
        /\ imp.failCount = Len(imp.allServers) - imp.successCount
        /\ \A i \in 1..Len(imp.allServers) :
              Storable(imp.allServers[i]) =>
                  \E r \in imp.db : r.name = imp.allServers[i].name

\* An import is over in which an entry failed and a later one was stored.
C18_Witness ==
    /\ imp.pc = "done" /\ imp.err = None
    /\ imp.failCount > 0
    /\ \E i, j \in 1..Len(imp.allServers) :
          /\ i < j
          /\ ~Storable(imp.allServers[i])
          /\ Storable(imp.allServers[j])
          /\ \E r \in imp.db : r.name = imp.allServers[j].name

\* The request carries a token that is valid under the configured key.
CarriesValidToken(key, h) ==
    /\ h.scheme \in {"Bearer", "bearer"}
    /\ h.token # NoToken
    /\ h.token.signedBy = key
    /\ ~h.token.expired

\* The token of the request holds a publish permission that matches name.
MayPublish(h, name) ==
    \E q \in h.token.permissions :
        /\ q.action = "publish"
        /\ \/ q.pattern = ResourceName("*", "*")
           \/ q.pattern = name
           \/ q.pattern = ResourceName(name.ns, "*")

\* C19: a publish request for a name that has no such version yet creates
\* the version if and only if no token verifier is configured or the
\* request carries a valid token with a publish permission matching the
\* name; with a verifier configured a missing, malformed or invalid token
\* is answered 401, a valid token without matching permission 403, and
\* then nothing is written.
C19_PublishAuthorization ==
    au.last.kind = "publish" /\ au.last.fresh =>
        LET h == au.last.header
            verifier == au.key # ""
            valid == CarriesValidToken(au.key, h)
            allowed == ~verifier \/ (valid /\ MayPublish(h, au.last.name))
        IN /\ au.last.created <=> allowed
           /\ verifier /\ ~valid => au.last.status = 401 /\ ~au.last.created
           /\ verifier /\ valid /\ ~MayPublish(h, au.last.name)
                 => au.last.status = 403 /\ ~au.last.created

\* C20: a deployment tool call without a token succeeds and reaches the
\* registry when no JWT private key is configured; when one is configured
\* it is answered with a bearer token error and no registry data.
C20_MCPToolAuth ==
    au.last.kind = "tool" /\ au.last.header.token = NoToken =>
        IF au.key = ""
        THEN ~au.last.isError /\ au.last.content = "deployments"
                /\ au.last.served
        ELSE au.last.isError /\ au.last.content = ErrBearerToken /\ ~au.last.served

\* With a key configured, a call without token was rejected and did not
\* reach the registry.
C20_Witness ==
    /\ au.key # "" /\ au.last.kind = "tool" /\ au.last.header.token = NoToken
    /\ au.last.isError /\ ~au.last.served

\* C21: the startup reconciliation runs under the 2-minute deadline, and
\* whether it succeeds, fails or runs into the deadline, the HTTP server is
\* started and serves reads.
C21_StartupContinues ==
    /\ (app.pc = "reconcile" /\ app.elapsed >= StartupReconcileTimeout)
           ~> (app.pc # "reconcile")
    /\ <>(app.pc = "serving" /\ app.reads > 0)

\* The server serves reads after a startup reconciliation that ran into
\* its deadline.
C21_Witness ==
    /\ app.pc = "serving" /\ app.reads > 0
    /\ app.reconciled /\ app.err = ErrDeadlineExceeded

\* The type the claim gives the resolution of a request: "fail" where it
\* says resolution fails.
ClaimedType(serverReq) ==
    IF serverReq.preferRemote /\ Len(serverReq.remotes) > 0 THEN "remote"
    ELSE IF Len(serverReq.packages) > 0 THEN "command"
    ELSE "fail"

Resolvable(serverReq) == Len(serverReq.remotes) > 0 \/ Len(serverReq.packages) > 0

ConfiguredNamespace(env) ==
    IF env.has /\ env.value # "" THEN env.value ELSE DefaultNamespace

\* C23: every object generated for a deployment is in the namespace given
\* by KAGENT_NAMESPACE of its configuration, or in the default namespace
\* when that is unset or empty.
C23_Namespace ==
    tr.op = "translate" =>
        \A o \in tr.namespaces : o.namespace = ConfiguredNamespace(tr.env)

\* C29: the objects of two different artifacts of a kind have different
\* names: after both are applied, both are there.
C29_DistinctNames ==
    tr.op = "apply" /\ tr.first # tr.second => Cardinality(tr.objects) = 2

\* C24: after any interleaving of publishes, a name that has versions has a
\* version flagged isLatest, and no version of the name is greater than a
\* flagged one under the resolver's order (semver, then publishedAt).
C24_LatestIsGreatest ==
    \A n \in Names :
        RowsOf(rows, n) # {} =>
            /\ \E l \in RowsOf(rows, n) : l.isLatest
            /\ \A l, r \in RowsOf(rows, n) :
                  l.isLatest =>
                      CompareVersions(r.version, l.version, r.publishedAt, l.publishedAt) <= 0

\* Two versions of a/x that are equal in semver precedence: the one
\* published later is the latest.
C24_Witness ==
    \E l, r \in RowsOf(rows, "a/x") :
        /\ l.isLatest /\ ~r.isLatest
        /\ CompareSemver(l.version, r.version) = 0
        /\ l.publishedAt > r.publishedAt

\* An update commits a descriptor that registry validation would refuse.
C25_SkipAtWrite_Step ==
    \A p \in Procs :
        (req[p].op = "update" /\ pc[p] = "write" /\ Finishes(p)
            /\ result'[p] = OK /\ ~req[p].registryOK) =>
            LET cur == GetServerByNameAndVersion(rows, req[p].name, req[p].version)
            IN cur.status = StatusDeleted \/ req[p].newStatus = StatusDeleted

C28_BoundedFetch ==
    imp.pageCount <= Len(imp.registry)

\* C26: after a successful install the new server runs, and so does every
\* server that was marked installed before.
C26_InstallKeepsServers ==
    cli.last.op = "install" /\ cli.last.err = OK =>
        InstalledServers(cli.last.servers) \cup {cli.last.name} \subseteq cli.rt.running

\* C27: a server is marked installed iff it belongs to the server set of
\* the last reconcile that succeeded; after a failed uninstall the server
\* is running and marked installed.
C27_InstalledIffApplied ==
    /\ InstalledServers(cli.db) = cli.rt.applied
    /\ cli.last.op = "uninstall" /\ cli.last.err = ErrApply =>
          /\ cli.last.name \in cli.rt.running
          /\ cli.last.name \in InstalledServers(cli.db)

\* C30: after a refresh, a server that was marked installed and that the
\* registry still lists is marked installed; when the fetch fails, the
\* stored servers are as before.
C30_RefreshKeepsInstalled ==
    cli.last.op = "refresh" =>
        IF cli.last.err = ErrFetch
        THEN cli.db = cli.last.servers
        ELSE InstalledServers(cli.last.servers) \cap cli.last.name
                 \subseteq InstalledServers(cli.db)

====
